---- MODULE Spec2Model ----
(***************************************************************************)
(* Model of the register-of-interests ingestion pipeline: the payer name   *)
(* normaliser and classifier, the field extractor, and the sync            *)
(* orchestrator (SyncService.runSync) with the store tables it writes and  *)
(* the reclassify-payers request that shares the payers table with it.     *)
(*                                                                         *)
(* Text is modelled with TLA+ strings: Len, SubSeq, Head, Tail and \o act  *)
(* on them character by character, so the string functions of the source   *)
(* (toLowerCase, trim, replace, includes) are computed, not assumed.       *)
(***************************************************************************)
EXTENDS Integers, Sequences, FiniteSets, Bags, TLC

(***************************************************************************)
(* Strings                                                                 *)
(***************************************************************************)

UpperChars == "ABCDEFGHIJKLMNOPQRSTUVWXYZ"
LowerChars == "abcdefghijklmnopqrstuvwxyz"
DigitChars == "0123456789"

Char(s, i) == SubSeq(s, i, i)

\* Position of the one-character string c in str, 0 when absent.
IndexOfChar(c, str) ==
    IF \E i \in 1..Len(str) : Char(str, i) = c
    THEN CHOOSE i \in 1..Len(str) :
            /\ Char(str, i) = c
            /\ \A j \in 1..(i - 1) : Char(str, j) # c
    ELSE 0

IsUpper(c) == IndexOfChar(c, UpperChars) # 0
IsLower(c) == IndexOfChar(c, LowerChars) # 0
IsDigit(c) == IndexOfChar(c, DigitChars) # 0

\* JavaScript's \s and \w character classes, over the characters of the model.
IsSpace(c) == c \in {" ", "\t", "\n"}
IsWordChar(c) == IsUpper(c) \/ IsLower(c) \/ IsDigit(c) \/ c = "_"

LowerChar(c) ==
    IF IsUpper(c) THEN Char(LowerChars, IndexOfChar(c, UpperChars)) ELSE c

RECURSIVE toLowerCase(_)
toLowerCase(s) ==
    IF s = "" THEN "" ELSE LowerChar(Head(s)) \o toLowerCase(Tail(s))

RECURSIVE trimStart(_)
trimStart(s) ==
    IF s # "" /\ IsSpace(Head(s)) THEN trimStart(Tail(s)) ELSE s

RECURSIVE trimEnd(_)
trimEnd(s) ==
    IF s # "" /\ IsSpace(Char(s, Len(s)))
    THEN trimEnd(SubSeq(s, 1, Len(s) - 1))
    ELSE s

trim(s) == trimEnd(trimStart(s))

\* s.includes(sub)
Includes(s, sub) ==
    \E i \in 0..(Len(s) - Len(sub)) : SubSeq(s, i + 1, i + Len(sub)) = sub

\* s.replace(/[^\w\s]/g, '')
RECURSIVE StripNonWordNonSpace(_)
StripNonWordNonSpace(s) ==
    IF s = "" THEN ""
    ELSE (IF IsWordChar(Head(s)) \/ IsSpace(Head(s)) THEN Head(s) ELSE "")
            \o StripNonWordNonSpace(Tail(s))

\* s.replace(/\s+/g, ' '): every maximal run of whitespace becomes one space.
RECURSIVE CollapseWhitespace(_)
CollapseWhitespace(s) ==
    IF s = "" THEN ""
    ELSE IF IsSpace(Head(s))
         THEN " " \o CollapseWhitespace(trimStart(s))
         ELSE Head(s) \o CollapseWhitespace(Tail(s))

(***************************************************************************)
(* PayerClassifier.normalizeName                                           *)
(***************************************************************************)

normalizeName(name) ==
    CollapseWhitespace(StripNonWordNonSpace(trim(toLowerCase(name))))

(***************************************************************************)
(* Regular expressions of the rule table.  A pattern is a tree; Ends gives *)
(* every offset at which a match starting at offset i can end, so test()   *)
(* is "some start has some end".  All patterns of the source carry the i   *)
(* flag: the subject is lower-cased and the literals are written in lower  *)
(* case.                                                                   *)
(***************************************************************************)

L(str) == [t |-> "lit", s |-> str]
S(list) == [t |-> "seq", l |-> list]
A(list) == [t |-> "alt", l |-> list]
O(node) == [t |-> "opt", n |-> node]
C(chars) == [t |-> "cls", s |-> chars]
Rep(cls, min) == [t |-> "rep", c |-> cls, m |-> min]
WB == [t |-> "wb"]
BOL == [t |-> "bol"]
EOL == [t |-> "eol"]

\* \bword\b
W(str) == S(<<WB, L(str), WB>>)

\* A character class used under a quantifier: \w, \s or [a-z].
InClass(cls, c) ==
    CASE cls = "w" -> IsWordChar(c)
      [] cls = "s" -> IsSpace(c)
      [] cls = "az" -> IsLower(c)
      [] OTHER -> FALSE

\* \b at offset i of s: exactly one side is a word character.
AtWordBoundary(s, i) ==
    LET before == i >= 1 /\ IsWordChar(Char(s, i))
        after == i < Len(s) /\ IsWordChar(Char(s, i + 1))
    IN  before # after

\* Length of the run of class characters starting at offset i.
RECURSIVE RunLength(_, _, _)
RunLength(cls, s, i) ==
    IF i < Len(s) /\ InClass(cls, Char(s, i + 1))
    THEN 1 + RunLength(cls, s, i + 1)
    ELSE 0

RECURSIVE Ends(_, _, _)
RECURSIVE EndsSeq(_, _, _)
Ends(re, s, i) ==
    CASE re.t = "lit" ->
            IF i + Len(re.s) <= Len(s) /\ SubSeq(s, i + 1, i + Len(re.s)) = re.s
            THEN {i + Len(re.s)} ELSE {}
      [] re.t = "cls" ->
            IF i < Len(s) /\ IndexOfChar(Char(s, i + 1), re.s) # 0
            THEN {i + 1} ELSE {}
      [] re.t = "rep" ->
            {i + k : k \in re.m..RunLength(re.c, s, i)}
      [] re.t = "wb" -> IF AtWordBoundary(s, i) THEN {i} ELSE {}
      [] re.t = "bol" -> IF i = 0 THEN {i} ELSE {}
      [] re.t = "eol" -> IF i = Len(s) THEN {i} ELSE {}
      [] re.t = "opt" -> {i} \cup Ends(re.n, s, i)
      [] re.t = "alt" ->
            UNION {Ends(re.l[k], s, i) : k \in 1..Len(re.l)}
      [] re.t = "seq" -> EndsSeq(re.l, s, {i})
EndsSeq(list, s, starts) ==
    IF list = <<>> \/ starts = {} THEN starts
    ELSE EndsSeq(Tail(list), s, UNION {Ends(Head(list), s, i) : i \in starts})

\* pattern.test(str) for a pattern with the i flag
RegexTest(re, str) ==
    LET s == toLowerCase(str)
    IN  \E i \in 0..Len(s) : Ends(re, s, i) # {}

(***************************************************************************)
(* The payer classifier: rule table, name heuristic, overrides, classify   *)
(***************************************************************************)

\* A classification without a subtype has subtype undefined; a payers row
\* without one stores null.
Undefined == "<undefined>"
Null == "<null>"

Lits(strs) == A([k \in 1..Len(strs) |-> L(strs[k])])

\* \b(a|b|c)\b
WAny(strs) == S(<<WB, Lits(strs), WB>>)

Rule(pat, type, subtype, priority) ==
    [pattern |-> pat, type |-> type, subtype |-> subtype, priority |-> priority]

DEFAULT_RULES == <<
    Rule(W("government of"), "Government", "Foreign Government", 10),
    Rule(W("embassy of"), "Government", "Embassy", 10),
    Rule(W("royal embassy"), "Government", "Embassy", 10),
    Rule(S(<<WB, Rep("w", 1), L(" embassy"), WB>>), "Government", "Embassy", 9),
    Rule(S(<<WB, L("consulate"), C("- "), L("general"), WB>>),
         "Government", "Consulate", 10),
    Rule(W("consulate of"), "Government", "Consulate", 10),
    Rule(W("high commission"), "Government", "Embassy", 10),
    Rule(W("ministry of"), "Government", "Ministry", 10),
    Rule(W("ministerio"), "Government", "Ministry", 10),
    Rule(S(<<WB, L("foreign "), Lits(<<"affairs", "ministry">>), WB>>),
         "Government", "Foreign Government", 10),
    Rule(W("mofa"), "Government", "Foreign Government", 10),
    Rule(W("federal department"), "Government", "Foreign Government", 10),
    Rule(W("federal government"), "Government", "Foreign Government", 10),
    Rule(W("state department"), "Government", "Foreign Government", 10),
    Rule(W("parliament of"), "Government", "Parliament", 10),
    Rule(W("national assembly"), "Government", "Parliament", 10),
    Rule(S(<<WB, Lits(<<"uk", "british", "hm">>), L(" government"), WB>>),
         "Government", "UK Government", 10),
    Rule(S(<<WB, L("department "), Lits(<<"of", "for">>), WB>>),
         "Government", "UK Government", 9),
    Rule(S(<<WB, L("house of "), Lits(<<"commons", "lords">>), WB>>),
         "Government", "UK Parliament", 10),
    Rule(A(<<W("eu"),
             S(<<L("european "), Lits(<<"union", "commission", "parliament">>)>>)>>),
         "Government", "EU", 9),
    Rule(W("united nations"), "Government", "International", 10),
    Rule(W("nato"), "Government", "International", 10),
    Rule(W("world bank"), "Government", "International", 10),
    Rule(A(<<W("imf"), W("international monetary fund")>>),
         "Government", "International", 10),
    Rule(W("council"), "Government", "Local Government", 6),
    Rule(W("authority"), "Government", "Public Authority", 5),
    Rule(S(<<WB, Lits(<<"ltd", "limited">>), O(L(".")), Rep("s", 0), EOL>>),
         "Company", Undefined, 12),
    Rule(S(<<WB, Lits(<<"ltd", "limited">>), WB, O(L("."))>>),
         "Company", Undefined, 12),
    Rule(S(<<WB, L("plc"), WB, O(L("."))>>), "Company", "Public Company", 12),
    Rule(W("friends of"), "Company", "Advocacy Group", 11),
    Rule(S(<<WB, L("llp"), WB, O(L(".")), EOL>>), "Company", "Partnership", 8),
    Rule(S(<<WB, L("inc"), O(L(".")), WB, EOL>>), "Company", Undefined, 8),
    Rule(S(<<WB, L("corp"), O(L("oration")), O(L(".")), WB, EOL>>),
         "Company", Undefined, 8),
    Rule(W("gmbh"), "Company", "German Company", 8),
    Rule(S(<<WB, Lits(<<"sa", "ag">>), WB, EOL>>), "Company", Undefined, 7),
    Rule(W("holdings"), "Company", "Holding Company", 6),
    Rule(S(<<WB, L("group"), WB, EOL>>), "Company", Undefined, 5),
    Rule(W("partners"), "Company", "Partnership", 5),
    Rule(W("foundation"), "Company", "Foundation", 5),
    Rule(W("trust"), "Company", "Trust", 5),
    Rule(W("charity"), "Company", "Charity", 5),
    Rule(S(<<WB, A(<<L("bbc"), L("itv"), L("sky"),
                     S(<<L("channel"), Rep("s", 0), L("4")>>)>>), WB>>),
         "Company", "Media", 8),
    Rule(WAny(<<"times", "guardian", "telegraph", "mail", "sun", "mirror">>),
         "Company", "Media", 7),
    Rule(WAny(<<"news", "media", "broadcasting", "radio">>), "Company", "Media", 5),
    Rule(W("university"), "Company", "Education", 7),
    Rule(W("college"), "Company", "Education", 6),
    Rule(W("institute"), "Company", "Institution", 5),
    Rule(W("union"), "Company", "Trade Union", 6),
    Rule(A(<<W("gmb"), W("unite"), W("unison")>>), "Company", "Trade Union", 8),
    Rule(S(<<BOL, Lits(<<"mr", "mrs", "ms", "miss", "dr", "sir", "dame", "lord",
                         "lady", "baron", "baroness", "viscount", "earl", "duke",
                         "duchess">>), Rep("s", 1)>>),
         "Individual", Undefined, 6),
    Rule(S(<<BOL, A(<<L("professor"), S(<<L("prof"), O(L("."))>>)>>), Rep("s", 1)>>),
         "Individual", Undefined, 6),
    Rule(S(<<BOL, O(S(<<L("the"), Rep("s", 1)>>)), O(S(<<L("rt"), Rep("s", 1)>>)),
             L("hon"), O(L("ourable")), O(L(".")), Rep("s", 1)>>),
         "Individual", Undefined, 6)
>>

COMMON_FIRST_NAMES == {
    "james", "john", "robert", "michael", "william", "david", "richard", "joseph",
    "thomas", "charles", "christopher", "daniel", "matthew", "anthony", "mark", "donald",
    "steven", "paul", "andrew", "joshua", "kenneth", "kevin", "brian", "george",
    "edward", "ronald", "timothy", "jason", "jeffrey", "ryan", "jacob", "gary",
    "nicholas", "eric", "jonathan", "stephen", "larry", "justin", "scott", "brandon",
    "benjamin", "samuel", "raymond", "gregory", "frank", "alexander", "patrick", "jack",
    "dennis", "jerry", "mary", "patricia", "jennifer", "linda", "elizabeth", "barbara",
    "susan", "jessica", "sarah", "karen", "nancy", "lisa", "margaret", "betty",
    "sandra", "ashley", "dorothy", "kimberly", "emily", "donna", "michelle", "carol",
    "amanda", "melissa", "deborah", "stephanie", "rebecca", "sharon", "laura", "cynthia",
    "kathleen", "amy", "angela", "shirley", "anna", "brenda", "pamela", "emma",
    "nicole", "helen", "samantha", "katherine", "christine", "debra", "rachel", "carolyn",
    "janet", "catherine", "maria", "heather", "peter", "simon", "ian", "stuart",
    "alan", "martin", "graham", "colin", "philip", "keith", "barry", "trevor",
    "derek", "roger", "neil", "adrian", "gerald", "carl", "roy", "wayne",
    "adam", "harry", "joe", "luke", "oliver", "oscar", "charlie", "jake",
    "max", "alex", "kate", "jane", "anne", "claire", "clare", "julia",
    "victoria", "sophie", "charlotte", "lucy", "grace", "hannah", "olivia", "chloe",
    "megan", "natalie", "louise", "holly", "joanne", "marie", "mohammed", "muhammad",
    "ahmed", "ali", "omar", "hassan", "hussein", "abdul", "syed", "tariq",
    "raj", "ravi", "anil", "sunil", "vijay", "amit", "ashok", "rajesh",
    "sanjay", "vikram", "priya", "sunita", "anita", "neha", "pooja", "deepa",
    "kavita", "rekha", "meera", "anjali"
}

\* The organisation words that rule a name out as a person's.
CompanyLikeWords ==
    WAny(<<"ltd", "limited", "plc", "llp", "inc", "corp", "gmbh", "foundation",
           "trust", "charity", "council", "authority", "university", "college",
           "institute", "union", "media", "news", "group", "holdings", "partners",
           "association", "society", "organisation", "organization", "committee",
           "board", "agency", "service", "services", "centre", "center",
           "hospital", "school", "company", "companies", "enterprises",
           "international", "global", "uk", "british">>)

\* s.split(/\s+/).filter(w => w.length > 0)
RECURSIVE SplitWords(_)
SplitWords(s) ==
    LET u == trimStart(s)
        RECURSIVE WordLen(_)
        WordLen(i) == IF i < Len(u) /\ ~IsSpace(Char(u, i + 1))
                      THEN 1 + WordLen(i + 1) ELSE 0
        k == WordLen(0)
    IN  IF u = "" THEN <<>>
        ELSE <<SubSeq(u, 1, k)>> \o SplitWords(SubSeq(u, k + 1, Len(u)))

\* w.replace(/[^a-z]/g, '')
RECURSIVE KeepLower(_)
KeepLower(s) ==
    IF s = "" THEN ""
    ELSE (IF IsLower(Head(s)) THEN Head(s) ELSE "") \o KeepLower(Tail(s))

looksLikeIndividualName(name) ==
    LET normalized == trim(toLowerCase(name))
        words == SplitWords(normalized)
    IN  IF RegexTest(CompanyLikeWords, normalized) THEN FALSE
        ELSE IF Len(words) < 2 \/ Len(words) > 4 THEN FALSE
        ELSE IF KeepLower(words[1]) \in COMMON_FIRST_NAMES THEN TRUE
        ELSE RegexTest(S(<<BOL, C(LowerChars), O(L(".")), Rep("s", 1),
                           Rep("az", 1), EOL>>), normalized)

\* A map in which a key that is set again moves behind the other keys.
RECURSIVE MapSetAtEnd(_, _, _)
MapSetAtEnd(map, key, value) ==
    SelectSeq(map, LAMBDA entry : entry.key # key) \o <<[key |-> key, value |-> value]>>

\* The classifier's override map: a Map keeps its keys in insertion order,
\* and setting a key it already holds replaces the value where the key is.
RECURSIVE MapSet(_, _, _)
MapSet(map, key, value) ==
    IF map = <<>> THEN <<[key |-> key, value |-> value]>>
    ELSE IF Head(map).key = key
         THEN <<[key |-> key, value |-> value]>> \o Tail(map)
         ELSE <<Head(map)>> \o MapSet(Tail(map), key, value)

\* A map in which no key is ever found.
MapNeverHas(map, key) == FALSE

MapHas(map, key) == \E k \in 1..Len(map) : map[k].key = key
MapGet(map, key) == map[CHOOSE k \in 1..Len(map) : map[k].key = key].value

\* loadOverrides builds the new map from an empty one, whatever was loaded
\* before; the result is the classifier's new override map.
RECURSIVE loadOverridesInto(_, _)
loadOverridesInto(map, list) ==
    IF list = <<>> THEN map
    ELSE loadOverridesInto(
            MapSet(map, toLowerCase(Head(list).pattern),
                   [type |-> Head(list).type, subtype |-> Head(list).subtype]),
            Tail(list))

\* A load that adds to the entries loaded before.
mergeOverrides(previous, list) == loadOverridesInto(previous, list)

loadOverrides(previous, list) == loadOverridesInto(<<>>, list)

\* A sort that puts the lowest priority first.
RECURSIVE InsertByLowestPriority(_, _)
InsertByLowestPriority(sorted, rule) ==
    IF sorted = <<>> THEN <<rule>>
    ELSE IF Head(sorted).priority <= rule.priority
         THEN <<Head(sorted)>> \o InsertByLowestPriority(Tail(sorted), rule)
         ELSE <<rule>> \o sorted

\* rules.filter(matches).sort((a, b) => b.priority - a.priority): the sort is
\* stable, so rules of equal priority keep their table order.
RECURSIVE InsertByPriority(_, _)
InsertByPriority(sorted, rule) ==
    IF sorted = <<>> THEN <<rule>>
    ELSE IF Head(sorted).priority >= rule.priority
         THEN <<Head(sorted)>> \o InsertByPriority(Tail(sorted), rule)
         ELSE <<rule>> \o sorted

\* No sort: the matching rules stay in table order.
KeepTableOrder(list) == list

RECURSIVE SortByPriority(_)
SortByPriority(list) ==
    IF list = <<>> THEN <<>>
    ELSE InsertByPriority(SortByPriority(SubSeq(list, 1, Len(list) - 1)),
                          list[Len(list)])

MatchingRules(rules, payerName) ==
    SelectSeq(rules, LAMBDA rule : RegexTest(rule.pattern, payerName))

classify(overrideMap, payerName) ==
    LET normalized == trim(toLowerCase(payerName))
        partial == {k \in 1..Len(overrideMap) : Includes(normalized, overrideMap[k].key)}
        matches == SortByPriority(MatchingRules(DEFAULT_RULES, payerName))
    IN  IF MapHas(overrideMap, normalized) THEN MapGet(overrideMap, normalized)
        ELSE IF partial # {}
             THEN overrideMap[CHOOSE k \in partial : \A j \in partial : k <= j].value
        ELSE IF matches # <<>>
             THEN [type |-> matches[1].type, subtype |-> matches[1].subtype]
        ELSE IF looksLikeIndividualName(payerName)
             THEN [type |-> "Individual", subtype |-> Undefined]
        ELSE [type |-> "Company", subtype |-> Undefined]

(***************************************************************************)
(* Values of the loosely typed input: a field's value is absent, null, a   *)
(* string, a number or a boolean.  Numbers are exact rationals n/d in      *)
(* lowest terms (the rounding of binary floating point is not modelled);   *)
(* NaN and the infinities are values of their own.                         *)
(***************************************************************************)

Value(t, s, n, d, b) == [t |-> t, s |-> s, n |-> n, d |-> d, b |-> b]
AbsentV == Value("absent", "", 0, 1, FALSE)
NullV == Value("null", "", 0, 1, FALSE)
NaNV == Value("nan", "", 0, 1, FALSE)
ThrowV == Value("throw", "", 0, 1, FALSE)
StrV(s) == Value("str", s, 0, 1, FALSE)
BoolV(b) == Value("bool", "", 0, 1, b)
InfV(sign) == Value("inf", "", sign, 1, FALSE)

Abs(n) == IF n < 0 THEN -n ELSE n

RECURSIVE GCD(_, _)
GCD(a, b) == IF b = 0 THEN a ELSE GCD(b, a % b)

\* The number n/d (d # 0) in lowest terms with a positive denominator.
NumV(n, d) ==
    LET g == GCD(Abs(n), Abs(d))
        sgn == IF d < 0 THEN -1 ELSE 1
    IN  Value("num", "", sgn * (n \div g), sgn * (d \div g), FALSE)

IntV(n) == NumV(n, 1)

IsNull(v) == v.t = "null"
IsNumber(v) == v.t \in {"num", "nan", "inf"}

\* JavaScript truthiness
Truthy(v) ==
    CASE v.t = "str" -> v.s # ""
      [] v.t = "num" -> v.n # 0
      [] v.t = "inf" -> TRUE
      [] v.t = "bool" -> v.b
      [] OTHER -> FALSE

\* a + b and a / b on numbers; NaN and the infinities follow IEEE arithmetic.
NumAdd(a, b) ==
    CASE a.t = "nan" \/ b.t = "nan" -> NaNV
      [] a.t = "inf" /\ b.t = "inf" -> IF a.n = b.n THEN a ELSE NaNV
      [] a.t = "inf" -> a
      [] b.t = "inf" -> b
      [] OTHER -> NumV(a.n * b.d + b.n * a.d, a.d * b.d)

NumDiv(a, b) ==
    CASE a.t = "nan" \/ b.t = "nan" -> NaNV
      [] a.t = "inf" /\ b.t = "inf" -> NaNV
      [] a.t = "inf" -> IF b.n < 0 THEN InfV(-a.n) ELSE a
      [] b.t = "inf" -> IntV(0)
      [] b.n = 0 -> IF a.n = 0 THEN NaNV ELSE InfV(IF a.n < 0 THEN -1 ELSE 1)
      [] OTHER -> NumV(a.n * b.d, a.d * b.n)

RECURSIVE Pow10(_)
Pow10(k) == IF k = 0 THEN 1 ELSE 10 * Pow10(k - 1)

\* The value of a string of decimal digits ("" is 0).
RECURSIVE DigitsValue(_)
DigitsValue(s) ==
    IF s = "" THEN 0
    ELSE 10 * DigitsValue(SubSeq(s, 1, Len(s) - 1))
            + (IndexOfChar(Char(s, Len(s)), DigitChars) - 1)

\* Length of the run of decimal digits at offset i of s.
RECURSIVE DigitRun(_, _)
DigitRun(s, i) ==
    IF i < Len(s) /\ IsDigit(Char(s, i + 1)) THEN 1 + DigitRun(s, i + 1) ELSE 0

StartsWithAt(s, i, prefix) ==
    i + Len(prefix) <= Len(s) /\ SubSeq(s, i + 1, i + Len(prefix)) = prefix

\* The number sign * mant * 10^expo / 10^nf.
FloatValue(sign, mant, nf, expo) ==
    IF expo >= 0 THEN NumV(sign * mant * Pow10(expo), Pow10(nf))
    ELSE NumV(sign * mant, Pow10(nf) * Pow10(-expo))

\* The literal read from s: sign, ni integer digits from offset p0, nf
\* fraction digits after the dot, exponent expo.
FloatLiteral(s, neg, p0, ni, nf, expo) ==
    FloatValue(IF neg THEN -1 ELSE 1,
               DigitsValue(SubSeq(s, p0 + 1, p0 + ni)) * Pow10(nf)
                    + DigitsValue(SubSeq(s, p0 + ni + 2, p0 + ni + 1 + nf)),
               nf, expo)

\* The exponent whose sign (es = 1 when written) and ne digits follow the
\* letter at offset p1; without digits there is no exponent part.
ExponentValue(s, p1, es, ne) ==
    IF ne = 0 THEN 0
    ELSE (IF es = 1 /\ Char(s, p1 + 2) = "-" THEN -1 ELSE 1)
            * DigitsValue(SubSeq(s, p1 + 2 + es, p1 + 1 + es + ne))

ParseExponentDigits(s, neg, p0, ni, nf, p1, es) ==
    FloatLiteral(s, neg, p0, ni, nf,
                 ExponentValue(s, p1, es, DigitRun(s, p1 + 1 + es)))

\* p1 is the offset after the mantissa.
ParseExponent(s, neg, p0, ni, nf, p1) ==
    IF ni + nf = 0 THEN NaNV
    ELSE IF p1 < Len(s) /\ Char(s, p1 + 1) \in {"e", "E"}
    THEN ParseExponentDigits(s, neg, p0, ni, nf, p1,
            IF p1 + 1 < Len(s) /\ Char(s, p1 + 2) \in {"-", "+"} THEN 1 ELSE 0)
    ELSE FloatLiteral(s, neg, p0, ni, nf, 0)

ParseFraction(s, neg, p0, ni) ==
    IF p0 + ni < Len(s) /\ Char(s, p0 + ni + 1) = "."
    THEN ParseExponent(s, neg, p0, ni, DigitRun(s, p0 + ni + 1),
                       p0 + ni + 1 + DigitRun(s, p0 + ni + 1))
    ELSE ParseExponent(s, neg, p0, ni, 0, p0 + ni)

ParseMantissa(s, neg, p0) ==
    IF StartsWithAt(s, p0, "Infinity") THEN InfV(IF neg THEN -1 ELSE 1)
    ELSE ParseFraction(s, neg, p0, DigitRun(s, p0))

ParseSign(s) ==
    ParseMantissa(s, s # "" /\ Head(s) = "-",
                  IF s # "" /\ Head(s) \in {"-", "+"} THEN 1 ELSE 0)

\* parseFloat(s): leading whitespace is skipped and the longest prefix that is
\* a decimal literal (sign, digits, fraction, exponent) or Infinity is read;
\* NaN when there is none.
parseFloat(str) == ParseSign(trimStart(str))

(***************************************************************************)
(* parseCurrencyAmount                                                     *)
(***************************************************************************)

\* s.replace(/[£,\s]/g, '')
RECURSIVE StripCurrency(_)
StripCurrency(s) ==
    IF s = "" THEN ""
    ELSE (IF Head(s) \in {"£", ","} \/ IsSpace(Head(s)) THEN "" ELSE Head(s))
            \o StripCurrency(Tail(s))

\* Length of the run of characters of the string chars at offset i of s.
RECURSIVE CharRun(_, _, _)
CharRun(s, i, chars) ==
    IF i < Len(s) /\ IndexOfChar(Char(s, i + 1), chars) # 0
    THEN 1 + CharRun(s, i + 1, chars)
    ELSE 0

\* The end of the capture that has read its digits and commas up to offset
\* e: the fraction is read when a dot and a digit follow.
CaptureEnd(low, e) ==
    IF StartsWithAt(low, e, ".") /\ DigitRun(low, e + 1) > 0
    THEN e + 1 + DigitRun(low, e + 1)
    ELSE e

\* ([\d,]+(?:\.\d+)?) at offset d, where n1 digits and commas stand
CaptureDigits(value, low, d, n1) ==
    IF n1 >= 1 THEN SubSeq(value, d + 1, CaptureEnd(low, d + n1)) ELSE Undefined

\* £? at offset k, then the capture
CapturePound(value, low, k) ==
    IF StartsWithAt(low, k, "£")
    THEN CaptureDigits(value, low, k + 1, CharRun(low, k + 1, DigitChars \o ","))
    ELSE CaptureDigits(value, low, k, CharRun(low, k, DigitChars \o ","))

\* value\s*[:\s]* after the ws1 white-space characters at offset a
CaptureValue(value, low, a, ws1) ==
    IF ws1 >= 1 /\ StartsWithAt(low, a + ws1, "value")
    THEN CapturePound(value, low,
            a + ws1 + Len("value") + CharRun(low, a + ws1 + Len("value"), ": \t\n"))
    ELSE Undefined

CaptureEstimated(value, low, i) ==
    IF StartsWithAt(low, i, "estimated")
    THEN CaptureValue(value, low, i + Len("estimated"),
                      RunLength("s", low, i + Len("estimated")))
    ELSE Undefined

\* The capture of /estimated\s+value\s*[:\s]*£?([\d,]+(?:\.\d+)?)/i at start
\* offset i, or Undefined when the pattern does not match there.  No two
\* neighbouring parts of the pattern can read the same character, so each
\* greedy part takes its whole run.
EstimatedCaptureAt(value, i) == CaptureEstimated(value, toLowerCase(value), i)

\* value.match(...)?.[1]: the capture of the leftmost match
EstimatedCapture(value) ==
    LET starts == {i \in 0..Len(value) : EstimatedCaptureAt(value, i) # Undefined}
    IN  IF starts = {} THEN Undefined
        ELSE EstimatedCaptureAt(value, CHOOSE i \in starts : \A j \in starts : i <= j)

\* The first two parts of s.split('-'), for s holding a dash.
SplitDash(s) ==
    LET i == IndexOfChar("-", s)
        rest == SubSeq(s, i + 1, Len(s))
        j == IndexOfChar("-", rest)
    IN  <<SubSeq(s, 1, i - 1),
          IF j = 0 THEN rest ELSE SubSeq(rest, 1, j - 1)>>

NumberOrNull(parsed) == IF parsed.t = "nan" THEN NullV ELSE parsed

\* The lower bound of the range in place of its midpoint.
LowerBound(cleaned, min, max) == NumberOrNull(min)

\* (min + max) / 2 when both parts of the range are numbers
Midpoint(cleaned, min, max) ==
    IF min.t # "nan" /\ max.t # "nan" THEN NumDiv(NumAdd(min, max), IntV(2))
    ELSE NumberOrNull(parseFloat(cleaned))

ParseCleaned(cleaned) ==
    IF Includes(cleaned, "-")
    THEN Midpoint(cleaned, parseFloat(SplitDash(cleaned)[1]),
                  parseFloat(SplitDash(cleaned)[2]))
    ELSE NumberOrNull(parseFloat(cleaned))

ProcessedValue(value, capture) == IF capture # Undefined THEN capture ELSE value

\* The result is a number, NullV, or ThrowV where the source raises a
\* TypeError (a boolean has no match method).
parseCurrencyAmount(value) ==
    IF value.t \in {"null", "absent"} THEN NullV
    ELSE IF IsNumber(value) THEN value
    ELSE IF value.t = "bool" THEN ThrowV
    ELSE ParseCleaned(StripCurrency(ProcessedValue(value.s, EstimatedCapture(value.s))))

(***************************************************************************)
(* The field extractor                                                     *)
(*                                                                         *)
(* A field has a name, a value and nested values: none, a flat list of     *)
(* fields, or a list of groups (one list of fields per donor).             *)
(***************************************************************************)

NoValues == [kind |-> "none", items |-> <<>>]
FlatValues(fields) == [kind |-> "flat", items |-> fields]
GroupValues(groups) == [kind |-> "groups", items |-> groups]

Field(name, value) == [name |-> name, value |-> value, values |-> NoValues]
FieldWith(name, value, values) == [name |-> name, value |-> value, values |-> values]

\* findField's result when nothing matches
NoField == Field(Undefined, AbsentV)

FIELD_MAPPINGS == [
    amount |-> <<"Payment", "Amount, or estimate of the probable value",
                 "Estimated value", "Value", "Amount", "Sum", "Total">>,
    payer |-> <<"Payer", "Donor", "Source", "Name of donor", "Name of payer",
                "Organisation", "Company">>,
    role |-> <<"Job title", "Role", "Position", "Work", "Service", "Description",
               "Nature of work">>,
    hours |-> <<"Hours worked", "Hours", "Time spent", "Duration">>,
    hoursPeriod |-> <<"Period for hours worked", "Period", "Frequency">>,
    address |-> <<"Address", "Address of payer", "Address of donor",
                  "Registered address">>,
    nature |-> <<"Nature of business", "Business", "Sector">>,
    startDate |-> <<"Start date", "From", "Date started", "Commencement date">>,
    endDate |-> <<"End date", "To", "Date ended", "Completion date">>,
    receivedDate |-> <<"Date received", "Received", "Date of receipt",
                       "Date of donation">>,
    regularity |-> <<"Regularity of payment", "Regularity", "Payment frequency">>,
    paymentType |-> <<"Payment type", "Type", "Kind">>,
    donorStatus |-> <<"DonorStatus", "Donor status", "Status">>,
    donorName |-> <<"DonorName", "Donor name", "Name of donor", "Name">>
]

\* The least index of seq whose element satisfies Test, 0 when there is none.
FirstIndex(seq, Test(_)) ==
    IF \E k \in 1..Len(seq) : Test(seq[k])
    THEN CHOOSE k \in 1..Len(seq) :
            Test(seq[k]) /\ \A j \in 1..(k - 1) : ~Test(seq[j])
    ELSE 0

\* A partial match without the two guards.
UnguardedMatch(f, name) ==
    \/ Includes(toLowerCase(f.name), toLowerCase(name))
    \/ Includes(toLowerCase(name), toLowerCase(f.name))

\* The partial-match test of findField for one synonym.
PartialMatch(f, name) ==
    LET fieldLower == toLowerCase(f.name)
        nameLower == toLowerCase(name)
    IN  IF Includes(fieldLower, "type") /\ ~Includes(nameLower, "type") THEN FALSE
        ELSE IF Includes(fieldLower, "description")
                    /\ ~Includes(nameLower, "description") THEN FALSE
        ELSE Includes(fieldLower, nameLower) \/ Includes(nameLower, fieldLower)

ExactMatch(f, name) == toLowerCase(f.name) = toLowerCase(name)

findField(fields, fieldNames) ==
    LET exactOf(name) == FirstIndex(fields, LAMBDA f : ExactMatch(f, name))
        partialOf(name) == FirstIndex(fields, LAMBDA f : PartialMatch(f, name))
        e == FirstIndex(fieldNames, LAMBDA name : exactOf(name) # 0)
        q == FirstIndex(fieldNames, LAMBDA name : partialOf(name) # 0)
    IN  IF e # 0 THEN fields[exactOf(fieldNames[e])]
        ELSE IF q # 0 THEN fields[partialOf(fieldNames[q])]
        ELSE NoField

\* The result is NullV, a string or a number.
getFieldValue(field) ==
    LET items == field.values.items
        nested == FirstIndex(items, LAMBDA v : v.value.t # "absent")
        useNested == /\ field.values.kind = "flat"
                     /\ items # <<>>
                     /\ items[1].value.t # "absent"
                     /\ nested # 0
    IN  IF field = NoField THEN NullV
        ELSE IF useNested
             THEN (IF items[nested].value.t = "bool" THEN NullV
                   ELSE items[nested].value)
        ELSE IF field.value.t # "absent"
             THEN (IF field.value.t = "bool" THEN NullV ELSE field.value)
        ELSE NullV

\* The decimal digits of a natural number.
RECURSIVE NatToString(_)
NatToString(n) ==
    IF n < 10 THEN Char(DigitChars, n + 1)
    ELSE NatToString(n \div 10) \o Char(DigitChars, (n % 10) + 1)

\* The k digits of the fraction r/d (r < d) where d divides 10^k.
RECURSIVE FractionDigits(_, _)
FractionDigits(r, d) ==
    IF r = 0 THEN ""
    ELSE Char(DigitChars, ((10 * r) \div d) + 1) \o FractionDigits((10 * r) % d, d)

\* String(v) for a value that is present.  Numbers of the input are decimal
\* literals, so their expansion ends.
StringOf(v) ==
    CASE v.t = "str" -> v.s
      [] v.t = "bool" -> IF v.b THEN "true" ELSE "false"
      [] v.t = "nan" -> "NaN"
      [] v.t = "inf" -> IF v.n < 0 THEN "-Infinity" ELSE "Infinity"
      [] v.t = "num" ->
            (IF v.n < 0 THEN "-" ELSE "")
                \o NatToString(Abs(v.n) \div v.d)
                \o (IF Abs(v.n) % v.d = 0 THEN ""
                    ELSE "." \o FractionDigits(Abs(v.n) % v.d, v.d))
      [] OTHER -> v.t

\* Only the fields of the first donor group.
FirstGroupOnly(groups) == Head(groups)

\* The fields of all donor groups, in order.
RECURSIVE Flatten(_)
Flatten(groups) ==
    IF groups = <<>> THEN <<>> ELSE Head(groups) \o Flatten(Tail(groups))

NoDonorData == [t |-> "none"]

\* The field is a value to add: its name is "value" and it holds something.
IsDonorValue(field) ==
    toLowerCase(field.name) = "value" /\ field.value.t \notin {"absent", "null"}

\* The accumulators after a field whose name in lower case is fieldName,
\* whose text is String(field.value) and whose amount, for a value to add,
\* is parsed.
DonorAccumulate(acc, field, fieldName, text, parsed) ==
    LET counts == IsDonorValue(field) /\ parsed.t \notin {"null", "throw"}
    IN  [ thrown |-> acc.thrown \/ parsed.t = "throw",
          totalValue |-> IF counts THEN NumAdd(acc.totalValue, parsed)
                         ELSE acc.totalValue,
          hasValue |-> acc.hasValue \/ counts,
          valueRaw |-> IF counts /\ ~Truthy(acc.valueRaw) THEN text ELSE acc.valueRaw,
          firstName |-> IF /\ fieldName \in {"name", "donorname"}
                           /\ ~Truthy(acc.firstName) /\ Truthy(field.value)
                        THEN text ELSE acc.firstName,
          firstAddress |-> IF /\ fieldName \in {"publicaddress", "address"}
                              /\ ~Truthy(acc.firstAddress) /\ Truthy(field.value)
                           THEN text ELSE acc.firstAddress,
          firstPaymentType |-> IF /\ fieldName = "paymenttype"
                                  /\ ~Truthy(acc.firstPaymentType)
                                  /\ Truthy(field.value)
                               THEN text ELSE acc.firstPaymentType ]

\* One step of the loop over the donor groups' fields.
DonorStep(acc, field) ==
    DonorAccumulate(acc, field, toLowerCase(field.name),
                    StrV(StringOf(field.value)),
                    IF IsDonorValue(field) THEN parseCurrencyAmount(field.value)
                    ELSE NullV)

RECURSIVE DonorLoop(_, _)
DonorLoop(acc, fields) ==
    IF fields = <<>> \/ acc.thrown THEN acc
    ELSE DonorLoop(DonorStep(acc, Head(fields)), Tail(fields))

\* What the loop over the donor groups has gathered.
DonorResult(acc) ==
    IF acc.thrown THEN [t |-> "throw"]
    ELSE IF ~acc.hasValue THEN NoDonorData
    ELSE [t |-> "donor", name |-> acc.firstName, address |-> acc.firstAddress,
          value |-> acc.totalValue, valueRaw |-> acc.valueRaw,
          paymentType |-> acc.firstPaymentType]

DonorsOf(field) ==
    IF field.values.items = <<>> THEN NoDonorData
    ELSE DonorResult(DonorLoop([thrown |-> FALSE, totalValue |-> IntV(0),
                                hasValue |-> FALSE, valueRaw |-> NullV,
                                firstName |-> NullV, firstAddress |-> NullV,
                                firstPaymentType |-> NullV],
                               IF field.values.kind = "groups"
                               THEN Flatten(field.values.items) ELSE <<>>))

DonorsField(fields, d) == IF d = 0 THEN NoDonorData ELSE DonorsOf(fields[d])

\* The result is NoDonorData, the donor data, or [t |-> "throw"] where the
\* currency parser raises.
extractFromDonorsArray(fields) ==
    DonorsField(fields, FirstIndex(fields,
        LAMBDA f : f.name \in {"Donors", "Payers", "Sources", "Funders"}))

\* value.replace(/[^\d.]/g, '')
RECURSIVE KeepDigitsAndDots(_)
KeepDigitsAndDots(s) ==
    IF s = "" THEN ""
    ELSE (IF IsDigit(Head(s)) \/ Head(s) = "." THEN Head(s) ELSE "")
            \o KeepDigitsAndDots(Tail(s))

parseHours(value) ==
    IF value.t \in {"null", "absent"} THEN NullV
    ELSE IF IsNumber(value) THEN value
    ELSE LET parsed == parseFloat(KeepDigitsAndDots(value.s))
         IN  IF parsed.t = "nan" THEN NullV ELSE parsed

\* !amount || !hours || hours <= 0
calculateHourlyRate(amount, hours, period) ==
    IF ~Truthy(amount) \/ ~Truthy(hours) \/ hours.n <= 0 THEN NullV
    ELSE NumDiv(amount, hours)

RECURSIVE ChildFields(_)
ChildFields(children) ==
    IF children = <<>> THEN <<>>
    ELSE Head(children).fields \o ChildFields(Tail(children))

NoPayment == [t |-> "null"]
Thrown == [t |-> "throw"]

\* The extracted payment, from the donor data, the direct amount (raw and
\* parsed) and the hours.
ExtractedPayment(interest, allFields, donorData, directRaw, directAmount, hoursWorked) ==
    LET hasDonor == donorData.t = "donor"
        get(names) == getFieldValue(findField(allFields, names))
        useDonor == IsNull(directAmount) /\ hasDonor /\ ~IsNull(donorData.value)
        amount == IF useDonor THEN donorData.value ELSE directAmount
        amountRaw == IF useDonor THEN donorData.valueRaw ELSE directRaw
        payer1 == IF ~Truthy(get(FIELD_MAPPINGS.payer)) /\ hasDonor
                        /\ Truthy(donorData.name)
                  THEN donorData.name ELSE get(FIELD_MAPPINGS.payer)
        role == get(FIELD_MAPPINGS.role)
        hoursPeriod == get(FIELD_MAPPINGS.hoursPeriod)
        address == get(FIELD_MAPPINGS.address)
        paymentType == get(FIELD_MAPPINGS.paymentType)
        categoryName == toLowerCase(interest.category.name)
    IN  [ t |-> "payment",
          interestId |-> interest.id,
          memberId |-> interest.member,
          categoryId |-> interest.category.id,
          amount |-> amount,
          amountRaw |-> IF IsNull(amountRaw) \/ StringOf(amountRaw) = ""
                        THEN NullV ELSE StrV(StringOf(amountRaw)),
          paymentType |-> IF ~Truthy(paymentType) /\ hasDonor
                               /\ Truthy(donorData.paymentType)
                          THEN donorData.paymentType ELSE paymentType,
          regularity |-> get(FIELD_MAPPINGS.regularity),
          roleDescription |-> IF ~Truthy(role) /\ interest.summary # ""
                              THEN StrV(interest.summary) ELSE role,
          hoursWorked |-> hoursWorked,
          hoursPeriod |-> hoursPeriod,
          hourlyRate |-> calculateHourlyRate(amount, hoursWorked, hoursPeriod),
          payerName |-> IF ~Truthy(payer1) THEN get(FIELD_MAPPINGS.donorName)
                        ELSE payer1,
          payerAddress |-> IF ~Truthy(address) /\ hasDonor
                               /\ Truthy(donorData.address)
                           THEN donorData.address ELSE address,
          payerNatureOfBusiness |-> get(FIELD_MAPPINGS.nature),
          payerStatus |-> get(FIELD_MAPPINGS.donorStatus),
          isDonated |-> Includes(categoryName, "donation")
                           \/ Includes(categoryName, "gift") ]

ExtractWithAmount(interest, allFields, donorData, directRaw) ==
    ExtractedPayment(interest, allFields, donorData, directRaw,
                     parseCurrencyAmount(directRaw),
                     parseHours(getFieldValue(findField(allFields, FIELD_MAPPINGS.hours))))

ExtractWithDonor(interest, allFields, donorData) ==
    IF donorData.t = "throw" THEN Thrown
    ELSE ExtractWithAmount(interest, allFields, donorData,
            getFieldValue(findField(allFields, FIELD_MAPPINGS.amount)))

ExtractFromFields(interest, allFields) ==
    IF allFields = <<>> THEN NoPayment
    ELSE ExtractWithDonor(interest, allFields, extractFromDonorsArray(allFields))

\* The result is NoPayment (null), Thrown (the currency parser raised), or
\* the extracted payment.  The three date attributes do not reach the payer
\* resolution or any table key and are left out of the record.
extractPaymentFromInterest(interest) ==
    ExtractFromFields(interest, interest.fields \o ChildFields(interest.childInterests))

\* The orchestrator's extraction call: the payments of one interest, as a
\* list; at most the one payment the field extractor yields.
extractPaymentsFromInterest(interest) ==
    LET payment == extractPaymentFromInterest(interest)
    IN  IF payment = NoPayment THEN <<>> ELSE <<payment>>

(***************************************************************************)
(* The external register API                                               *)
(*                                                                         *)
(* The interests the register may publish, by id.  The bulk listing omits  *)
(* the child interests, the listing filtered by category carries them      *)
(* (rich).                                                                 *)
(***************************************************************************)

EMPLOYMENT_CATEGORY == 12

ApiCategories == <<[id |-> 3, name |-> "Gifts, benefits and hospitality"],
                   [id |-> 12, name |-> "Employment and earnings"]>>

\* The ids of the current members the members listing returns.
ApiMembers == {1, 2}

CategoryOf(id) == ApiCategories[CHOOSE k \in 1..Len(ApiCategories) : ApiCategories[k].id = id]

Interest(id, member, categoryId, summary, fields, children) ==
    [id |-> id, member |-> member, category |-> CategoryOf(categoryId),
     summary |-> summary, fields |-> fields, childInterests |-> children]

PublishedInterest(id, rich) ==
    CASE id = 1 ->
            Interest(1, 1, 12, "Adviser", <<Field("Payer", StrV("Acme Corp."))>>,
                     IF rich THEN <<[fields |-> <<Field("Payment", StrV("£1,000"))>>]>>
                     ELSE <<>>)
      [] id = 2 ->
            Interest(2, 2, 3, "", <<FieldWith("Donors", AbsentV, GroupValues(<<
                        <<Field("Name", StrV("ACME CORP")), Field("Value", IntV(500))>>
                     >>))>>, <<>>)
      [] id = 3 ->
            Interest(3, 1, 3, "Hospitality",
                     <<Field("Payer", StrV("Acme Corp .")),
                       Field("DonorStatus", StrV("Individual"))>>, <<>>)
      [] id = 4 ->
            Interest(4, 2, 12, "Columnist", <<Field("Payment", StrV("£200"))>>, <<>>)
      [] id = 5 ->
            Interest(5, 1, 3, "Nothing to declare", <<>>, <<>>)
      [] id = 6 ->
            Interest(6, 9, 3, "Former member", <<Field("Payer", StrV("Other Ltd"))>>,
                     <<>>)
      [] id = 7 ->
            Interest(7, 2, 3, "Reference number only",
                     <<Field("Payer", IntV(42))>>, <<>>)

\* The register's contents at different times: the set of published ids.
Datasets == {{1, 2, 3, 4, 5, 6}, {1, 4}, {2, 7}}

\* The elements of a set of numbers in increasing order.
RECURSIVE SortedSeq(_)
SortedSeq(set) ==
    IF set = {} THEN <<>>
    ELSE LET m == CHOOSE a \in set : \A b \in set : a <= b
         IN  <<m>> \o SortedSeq(set \ {m})

\* fetchAllInterests: every published interest of the given members, without
\* child interests.
fetchAllInterests(published, memberIds) ==
    SelectSeq([k \in 1..Cardinality(published) |->
                    PublishedInterest(SortedSeq(published)[k], FALSE)],
              LAMBDA i : i.member \in memberIds)

\* fetchInterestsByCategory: the published interests of one category and of
\* the given members, with their child interests.
fetchInterestsByCategory(published, categoryId, memberIds) ==
    SelectSeq([k \in 1..Cardinality(published) |->
                    PublishedInterest(SortedSeq(published)[k], TRUE)],
              LAMBDA i : i.category.id = categoryId /\ i.member \in memberIds)

\* The overrides of data/payer-overrides.json.
payerOverridesData ==
    <<[pattern |-> "Acme Corp Holdings", type |-> "Company", subtype |-> "Holding Company"]>>

Range(seq) == {seq[k] : k \in 1..Len(seq)}

(***************************************************************************)
(* The values of the pure functions on what the register can publish,     *)
(* computed once: the extraction of each published record, the normalized *)
(* form of each payer name, the classification of each payer name under   *)
(* each state of the override map.                                        *)
(***************************************************************************)

PublishedRecords == {PublishedInterest(id, rich) : id \in 1..7, rich \in BOOLEAN}

Extracted == [i \in PublishedRecords |-> extractPaymentsFromInterest(i)]

\* The fields a values attribute holds: the nested fields, or the fields of
\* every group.
NestedFields(values) ==
    CASE values.kind = "flat" -> Range(values.items)
      [] values.kind = "groups" -> UNION {Range(g) : g \in Range(values.items)}
      [] OTHER -> {}

\* Every text a published record carries as the value of a field: a payer
\* name of an extraction is one of them.
PublishedTexts(i) ==
    {StringOf(f.value) :
        f \in UNION {{g} \cup NestedFields(g.values) :
                        g \in Range(i.fields \o ChildFields(i.childInterests))}}

PublishedNames == UNION {PublishedTexts(i) : i \in PublishedRecords}

NormalizedName == [n \in PublishedNames |-> normalizeName(n)]

OverrideMaps == {<<>>, loadOverrides(<<>>, payerOverridesData)}

Classification == [o \in OverrideMaps |-> [n \in PublishedNames |-> classify(o, n)]]

(***************************************************************************)
(* The store and the sync orchestrator                                     *)
(***************************************************************************)

\* Bounds of the model, each counted over one behaviour: the sync runs
\* started; the failures (a store call reporting an error, a fetch throwing,
\* the platform ending an invocation); the events around the sync (the
\* register publishing other contents, an administrator setting a manual
\* override, a reclassify request).
MaxRuns == 2
MaxFaults == 1
MaxEvents == 1

\* The batch size of the interests and payments writes: chunk(records, 100)
\* in the source, scaled down so that a handful of records fill several
\* batches.
CHUNK_SIZE == 2

\* SQL NULL in the payer_id column, whose SERIAL values start at 1.
NULL_ID == 0

\* Concurrent invocations of the refresh-data route.
Runs == {1, 2}

VARIABLES
    api,          \* the ids the register publishes now
    overrides,    \* the singleton classifier's override map
    categories,   \* table categories: the ids stored
    members,      \* table members: the ids stored
    interests,    \* table interests: rows by id
    payers,       \* table payers
    payerSeq,     \* the last value of payers' SERIAL id
    payments,     \* table payments: a bag of rows (the SERIAL id left out)
    sync_log,     \* table sync_log: row k has id k
    run,          \* the state of each invocation of runSync
    reclassify,   \* the state of the reclassify-payers request
    budget,       \* what the bounds have left
    baseline,     \* history: the tables as the last undisturbed complete run left them
    call          \* a library function called on its own: arguments and result

vars == <<api, overrides, categories, members, interests, payers, payerSeq,
          payments, sync_log, run, reclassify, budget, baseline, call>>

tables == <<categories, members, interests, payers, payerSeq, payments>>

None == [t |-> "none"]

NoCall == [op |-> "none"]

\* chunk(array, size)
RECURSIVE chunk(_, _)
chunk(array, size) ==
    IF array = <<>> THEN <<>>
    ELSE IF Len(array) <= size THEN <<array>>
    ELSE <<SubSeq(array, 1, size)>> \o chunk(SubSeq(array, size + 1, Len(array)), size)

\* The bag of the elements of a sequence.
RECURSIVE BagOfSeq(_)
BagOfSeq(seq) ==
    IF seq = <<>> THEN EmptyBag
    ELSE SetToBag({Head(seq)}) (+) BagOfSeq(Tail(seq))

\* classification.type and classification.subtype || null
Classified(classification) ==
    [type |-> classification.type,
     subtype |-> IF classification.subtype \in {Undefined, ""}
                 THEN Null ELSE classification.subtype]

\* The type mapped from the status the register reports (in lower case),
\* when it is one of the known ones, else the classifier's answer.
StatusOrClassified(hasStatus, statusLower, classified) ==
    IF ~hasStatus THEN classified
    ELSE IF statusLower \in {"individual", "private individual"}
         THEN [type |-> "Individual", subtype |-> Null]
    ELSE IF statusLower \in {"company", "corporate"}
         THEN [type |-> "Company", subtype |-> Null]
    ELSE IF Includes(statusLower, "government") \/ Includes(statusLower, "public")
         THEN [type |-> "Government", subtype |-> Null]
    ELSE classified

\* The payer type of a new payer record.
PayerClassification(ovr, extracted) ==
    StatusOrClassified(Truthy(extracted.payerStatus),
                       toLowerCase(extracted.payerStatus.s),
                       Classified(Classification[ovr][extracted.payerName.s]))

\* The record of the payer map: payerMap.set(normalizedName, {...})
NewPayer(name, normalizedName, classification) ==
    [name |-> name,
     normalized_name |-> normalizedName,
     payer_type |-> classification.type,
     payer_subtype |-> classification.subtype,
     is_manual_override |-> FALSE]

PayerRecord(ovr, extracted, normalizedName) ==
    NewPayer(extracted.payerName.s, normalizedName, PayerClassification(ovr, extracted))

\* The payments row built from an extracted payment, before the payer id is
\* known.  The columns copied unchanged from the extraction that no key and
\* no lookup reads (type, regularity, role, hours, rate, address, dates) are
\* left out of the row.
PaymentRow(extracted) ==
    [interest_id |-> extracted.interestId,
     member_id |-> extracted.memberId,
     category_id |-> extracted.categoryId,
     amount |-> extracted.amount,
     payer_id |-> NULL_ID,
     payer_name |-> extracted.payerName]

\* A name or status that is truthy and not a string has no toLowerCase: the
\* loop raises a TypeError.
NotAString(v) == Truthy(v) /\ v.t # "str"

\* One turn of the first loop of processPayments, for an extracted payment
\* whose payer name, when it is a string, has the normalized form key.
CollectPayment(ovr, acc, e, key) ==
    IF e.t = "throw" \/ NotAString(e.payerName)
    THEN [acc EXCEPT !.thrown = TRUE]
    ELSE IF ~Truthy(e.payerName)
    THEN [acc EXCEPT !.payments = Append(@, PaymentRow(e))]
    ELSE IF \E k \in 1..Len(acc.payerMap) : acc.payerMap[k].normalized_name = key
    THEN [acc EXCEPT !.payments = Append(@, PaymentRow(e))]
    ELSE IF NotAString(e.payerStatus)
    THEN [acc EXCEPT !.thrown = TRUE]
    ELSE [acc EXCEPT !.payments = Append(@, PaymentRow(e)),
                     !.payerMap = Append(@, PayerRecord(ovr, e, key))]

\* The first loop of processPayments over the extracted payments: the
\* payments rows and the payer map (in insertion order), or thrown.
RECURSIVE CollectPayments(_, _, _)
CollectPayments(ovr, extractedList, acc) ==
    IF extractedList = <<>> \/ acc.thrown THEN acc
    ELSE CollectPayments(ovr, Tail(extractedList),
            CollectPayment(ovr, acc, Head(extractedList),
                           IF Head(extractedList).t = "payment"
                                /\ Head(extractedList).payerName.t = "str"
                           THEN NormalizedName[Head(extractedList).payerName.s]
                           ELSE Null))

RECURSIVE ExtractAll(_)
ExtractAll(interestList) ==
    IF interestList = <<>> THEN <<>>
    ELSE Extracted[Head(interestList)] \o ExtractAll(Tail(interestList))

\* An upsert that knows no conflict target: every record becomes a new row.
RECURSIVE InsertPayers(_, _, _)
InsertPayers(rows, seq, records) ==
    IF records = <<>> THEN [rows |-> rows, seq |-> seq]
    ELSE InsertPayers(rows \cup {[id |-> seq + 1, name |-> Head(records).name,
                                  normalized_name |-> Head(records).normalized_name,
                                  payer_type |-> Head(records).payer_type,
                                  payer_subtype |-> Head(records).payer_subtype,
                                  is_manual_override |-> Head(records).is_manual_override]},
                      seq + 1, Tail(records))

\* payers.upsert(records, {onConflict: 'normalized_name'}): a row with the
\* same normalized name takes every column of the record and keeps its id;
\* any other record becomes a new row with the next id.
RECURSIVE UpsertPayers(_, _, _)
UpsertPayers(rows, seq, records) ==
    IF records = <<>> THEN [rows |-> rows, seq |-> seq]
    ELSE LET rec == Head(records)
             old == {p \in rows : p.normalized_name = rec.normalized_name}
             row(id) == [id |-> id, name |-> rec.name,
                         normalized_name |-> rec.normalized_name,
                         payer_type |-> rec.payer_type,
                         payer_subtype |-> rec.payer_subtype,
                         is_manual_override |-> rec.is_manual_override]
         IN  IF old # {}
             THEN UpsertPayers((rows \ old) \cup {row((CHOOSE p \in old : TRUE).id)},
                               seq, Tail(records))
             ELSE UpsertPayers(rows \cup {row(seq + 1)}, seq + 1, Tail(records))

\* A lookup that ignores the payment's name: the payer with the least id.
ResolveFirstPayer(selected, payment) ==
    IF ~Truthy(payment.payer_name) \/ selected = {} THEN NULL_ID
    ELSE CHOOSE id \in {p.id : p \in selected} : \A p \in selected : id <= p.id

\* payerIdMap.get(normalizeName(payment.payer_name)) || null, for a payment
\* with a payer name.
ResolvePayerId(selected, payment) ==
    LET key == NormalizedName[payment.payer_name.s]
        hit == {p \in selected : p.normalized_name = key}
    IN  IF ~Truthy(payment.payer_name) \/ hit = {} THEN NULL_ID
        ELSE (CHOOSE p \in hit : TRUE).id

\* The foreign keys of the schema: a batch holding a row that points to a
\* missing row is rejected whole.
InterestRowsValid(rows) ==
    \A i \in Range(rows) : i.member_id \in members /\ i.category_id \in categories

PaymentRowsValid(rows) ==
    \A p \in Range(rows) :
        /\ p.interest_id \in {i.id : i \in interests}
        /\ p.member_id \in members
        /\ p.category_id \in categories
        /\ p.payer_id = NULL_ID \/ p.payer_id \in {q.id : q \in payers}

InterestRow(i) == [id |-> i.id, member_id |-> i.member, category_id |-> i.category.id]

\* interests.upsert(chunk, {onConflict: 'id'})
UpsertInterests(rows, chunkRows) ==
    {i \in rows : i.id \notin {c.id : c \in Range(chunkRows)}} \cup Range(chunkRows)

IdleRun ==
    [pc |-> "idle", syncId |-> 0, errors |-> <<>>, memberIds |-> {},
     bulk |-> <<>>, merged |-> <<>>, payments |-> <<>>, i |-> 0,
     error |-> Null, rethrown |-> Null,
     steps |-> <<>>, faults |-> <<>>, failedAt |-> Null, logLost |-> FALSE,
     fetched |-> {},
     clean |-> FALSE, base |-> None, result |-> None]

Init ==
    /\ api \in Datasets
    /\ overrides = <<>>
    /\ categories = {}
    /\ members = {}
    /\ interests = {}
    /\ payers = {}
    /\ payerSeq = 0
    /\ payments = EmptyBag
    /\ sync_log = <<>>
    /\ run = [r \in Runs |-> IdleRun]
    /\ reclassify = [pc |-> "idle", updates |-> <<>>, updatedCount |-> 0]
    /\ budget = [runs |-> MaxRuns, faults |-> MaxFaults, events |-> MaxEvents]
    /\ baseline = None
    /\ call = NoCall

Finished(r) == run[r].pc \in {"idle", "done", "thrown", "killed"}
Active(r) == ~Finished(r)

\* The outcomes of a store call: it succeeds, or it reports an error.  A fetch
\* succeeds or throws.  Failures are counted against the bound.
StoreOutcomes == {"ok"} \cup (IF budget.faults > 0 THEN {"error"} ELSE {})
FetchOutcomes == {"ok"} \cup (IF budget.faults > 0 THEN {"throw"} ELSE {})

Spend(outcome) ==
    IF outcome = "ok" THEN budget ELSE [budget EXCEPT !.faults = @ - 1]

\* History of a run: the step taken and, when the store reported an error
\* or the fetch threw, the fault.
Step(rec, name, outcome) ==
    [rec EXCEPT !.steps = Append(@, name),
                !.faults = IF outcome = "ok" THEN @ ELSE Append(@, name),
                !.clean = @ /\ outcome = "ok"]

\* A fetch threw and the run goes on where it was.
ThrowAndGoOn(rec, name, message) ==
    [Step(rec, name, "throw") EXCEPT !.error = message, !.failedAt = name]

\* A fetch threw: control passes to the catch block of runSync.
Throw(rec, name, message) ==
    [Step(rec, name, "throw") EXCEPT !.pc = "failing", !.error = message,
                                     !.failedAt = name]

\* An error branch that records nothing.
ForgetError(rec, outcome, tag) == rec

\* if (error) this.errors.push(tag + error.message)
PushError(rec, outcome, tag) ==
    IF outcome = "ok" THEN rec ELSE [rec EXCEPT !.errors = Append(@, tag)]

Snapshot ==
    [payments |-> payments, payers |-> Cardinality(payers),
     interests |-> {i.id : i \in interests}]

\* runSync up to the creation of the log entry: loadOverrides, createSyncLog.
\* createSyncLog throws when the insert fails; nothing catches it here.
StartRun(r) ==
    /\ Finished(r)
    /\ \A q \in Runs : Finished(q) => r <= q
    /\ budget.runs > 0
    /\ overrides' = loadOverrides(overrides, payerOverridesData)
    /\ \E outcome \in StoreOutcomes :
        LET alone == \A q \in Runs : Finished(q)
            fresh == [IdleRun EXCEPT !.clean = alone /\ outcome = "ok",
                                     !.base = baseline]
        IN  /\ budget' = [Spend(outcome) EXCEPT !.runs = @ - 1]
            /\ IF outcome = "ok"
               THEN /\ sync_log' = Append(sync_log,
                            [status |-> "running", completed_at |-> FALSE,
                             error_message |-> Null])
                    /\ run' = [q \in Runs |->
                                IF q = r
                                THEN [Step(fresh, "createSyncLog", outcome) EXCEPT
                                        !.pc = "categories",
                                        !.syncId = Len(sync_log) + 1]
                                ELSE [run[q] EXCEPT !.clean = @ /\ Finished(q)]]
               ELSE /\ sync_log' = sync_log
                    /\ run' = [run EXCEPT ![r] =
                                [Step(fresh, "createSyncLog", outcome) EXCEPT
                                    !.pc = "thrown", !.rethrown = "sync_log insert error"]]
    /\ baseline' = None
    /\ UNCHANGED <<call, api, tables, reclassify>>

\* An update of the newest log entry instead of the entry of the run.
completeLatestSyncLog(log, syncId, status, errorMessage) ==
    [log EXCEPT ![Len(log)] = [status |-> status, completed_at |-> TRUE,
                               error_message |-> errorMessage]]

\* An update of the log entry that leaves the error message out.
completeSyncLogWithoutMessage(log, syncId, status, errorMessage) ==
    [log EXCEPT ![syncId] = [status |-> status, completed_at |-> TRUE,
                             error_message |-> Null]]

\* completeSyncLog(status, errorMessage)
completeSyncLog(log, syncId, status, errorMessage) ==
    [log EXCEPT ![syncId] = [status |-> status, completed_at |-> TRUE,
                             error_message |-> errorMessage]]

syncCategories(r) ==
    /\ run[r].pc = "categories"
    /\ \E fetched \in FetchOutcomes, outcome \in StoreOutcomes :
        /\ fetched = "ok" \/ outcome = "ok"
        /\ budget' = Spend(IF fetched = "ok" THEN outcome ELSE fetched)
        /\ IF fetched = "throw"
           THEN /\ run' = [run EXCEPT ![r] =
                            Throw(@, "fetchCategories", "Categories API error")]
                /\ UNCHANGED categories
           ELSE /\ run' = [run EXCEPT ![r] =
                            [PushError(Step(@, "categories", outcome), outcome,
                                       "Category sync error")
                                EXCEPT !.pc = "members"]]
                /\ categories' = IF outcome = "ok"
                                 THEN categories \cup {c.id : c \in Range(ApiCategories)}
                                 ELSE categories
    /\ UNCHANGED <<call, api, overrides, members, interests, payers, payerSeq, payments,
                   sync_log, reclassify, baseline>>

syncMembers(r) ==
    /\ run[r].pc = "members"
    /\ \E fetched \in FetchOutcomes, outcome \in StoreOutcomes :
        /\ fetched = "ok" \/ outcome = "ok"
        /\ budget' = Spend(IF fetched = "ok" THEN outcome ELSE fetched)
        /\ IF fetched = "throw"
           THEN /\ run' = [run EXCEPT ![r] =
                            Throw(@, "fetchAllCurrentMPs", "Members API error")]
                /\ UNCHANGED members
           ELSE /\ run' = [run EXCEPT ![r] =
                            [PushError(Step(@, "members", outcome), outcome,
                                       "Member sync error")
                                EXCEPT !.pc = "fetchAllInterests",
                                       !.memberIds = ApiMembers]]
                /\ members' = IF outcome = "ok" THEN members \cup ApiMembers
                              ELSE members
    /\ UNCHANGED <<call, api, overrides, categories, interests, payers, payerSeq, payments,
                   sync_log, reclassify, baseline>>

\* syncInterests, first fetch: the bulk listing.
fetchBulk(r) ==
    /\ run[r].pc = "fetchAllInterests"
    /\ \E fetched \in FetchOutcomes :
        /\ budget' = Spend(fetched)
        /\ run' = [run EXCEPT ![r] =
                    IF fetched = "throw"
                    THEN Throw(@, "fetchAllInterests", "Interests API error")
                    ELSE [Step(@, "fetchAllInterests", "ok") EXCEPT
                            !.pc = "fetchInterestsByCategory",
                            !.bulk = fetchAllInterests(api, run[r].memberIds)]]
    /\ UNCHANGED <<call, api, overrides, tables, sync_log, reclassify, baseline>>

\* A merge that keeps the bulk listing and adds the category listing to it.
appendInterests(bulk, employmentInterests) == bulk \o employmentInterests

\* The merge of syncInterests: an employment interest of the bulk listing is
\* replaced by the record of the same id in the category listing.
mergeInterests(bulk, employmentInterests) ==
    [k \in 1..Len(bulk) |->
        LET same == {j \in 1..Len(employmentInterests) :
                        employmentInterests[j].id = bulk[k].id}
        IN  IF bulk[k].category.id = EMPLOYMENT_CATEGORY /\ same # {}
            THEN employmentInterests[CHOOSE j \in same : \A h \in same : h <= j]
            ELSE bulk[k]]

\* syncInterests, second fetch and merge.
fetchEmployment(r) ==
    /\ run[r].pc = "fetchInterestsByCategory"
    /\ \E fetched \in FetchOutcomes :
        /\ budget' = Spend(fetched)
        /\ run' = [run EXCEPT ![r] =
                    IF fetched = "throw"
                    THEN Throw(@, "fetchInterestsByCategory", "Interests API error")
                    ELSE LET merged == mergeInterests(run[r].bulk,
                                fetchInterestsByCategory(api, EMPLOYMENT_CATEGORY,
                                                         run[r].memberIds))
                         IN  [Step(@, "fetchInterestsByCategory", "ok") EXCEPT
                                !.pc = IF merged = <<>> THEN "processPayments"
                                       ELSE "upsertInterests",
                                !.bulk = <<>>,
                                !.merged = merged,
                                !.fetched = {m.id : m \in Range(merged)},
                                !.i = 1]]
    /\ UNCHANGED <<call, api, overrides, tables, sync_log, reclassify, baseline>>

InterestChunks(rec) ==
    chunk([k \in 1..Len(rec.merged) |-> InterestRow(rec.merged[k])], CHUNK_SIZE)

\* syncInterests, one batch of the upsert loop.
upsertInterestChunk(r) ==
    /\ run[r].pc = "upsertInterests"
    /\ LET chunks == InterestChunks(run[r])
           rows == chunks[run[r].i]
       IN  \E injected \in StoreOutcomes :
            LET outcome == IF InterestRowsValid(rows) THEN injected ELSE "error"
            IN  /\ budget' = Spend(injected)
                /\ interests' = IF outcome = "ok" THEN UpsertInterests(interests, rows)
                                ELSE interests
                /\ run' = [run EXCEPT ![r] =
                            [PushError(Step(@, "interests", outcome), outcome,
                                       "Interest sync error")
                                EXCEPT !.i = @ + 1,
                                       !.pc = IF run[r].i = Len(chunks)
                                              THEN "processPayments"
                                              ELSE "upsertInterests"]]
    /\ UNCHANGED <<call, api, overrides, categories, members, payers, payerSeq, payments,
                   sync_log, reclassify, baseline>>

\* The payments as the first loop left them: no payer id is assigned.
WithoutPayerIds(selected, rows) == rows

\* The payments with their payer ids, as the second loop of processPayments
\* leaves them.
WithPayerIds(selected, rows) ==
    [k \in 1..Len(rows) |->
        IF Truthy(rows[k].payer_name)
        THEN [rows[k] EXCEPT !.payer_id = ResolvePayerId(selected, rows[k])]
        ELSE rows[k]]

\* processPayments after its first loop has gathered acc: the TypeError it
\* raised, or the upsert of the payer records.
upsertCollected(r, acc) ==
    IF acc.thrown
    THEN /\ run' = [run EXCEPT ![r] =
                    [@ EXCEPT !.pc = "failing",
                              !.merged = <<>>,
                              !.steps = Append(@, "extract"),
                              !.clean = FALSE,
                              !.error = "TypeError",
                              !.failedAt = "extract"]]
         /\ UNCHANGED <<payers, payerSeq, budget>>
    ELSE \E outcome \in StoreOutcomes :
            /\ acc.payerMap = <<>> => outcome = "ok"
            /\ budget' = Spend(outcome)
            /\ payers' = IF outcome = "ok"
                         THEN UpsertPayers(payers, payerSeq, acc.payerMap).rows
                         ELSE payers
            /\ payerSeq' = IF outcome = "ok"
                           THEN UpsertPayers(payers, payerSeq, acc.payerMap).seq
                           ELSE payerSeq
            /\ run' = [run EXCEPT ![r] =
                        [PushError(Step(@, "payers", outcome), outcome,
                                   "Payer sync error")
                            EXCEPT !.pc = "selectPayers",
                                   !.merged = <<>>,
                                   !.payments = acc.payments]]

\* processPayments, up to the payers upsert: the extraction loop, which may
\* raise a TypeError, and the upsert of the payer records.
collectAndUpsertPayers(r) ==
    /\ run[r].pc = "processPayments"
    /\ upsertCollected(r, CollectPayments(overrides, ExtractAll(run[r].merged),
                            [thrown |-> FALSE, payments |-> <<>>, payerMap |-> <<>>]))
    /\ UNCHANGED <<call, api, overrides, categories, members, interests, payments,
                   sync_log, reclassify, baseline>>

\* processPayments: the select of the payer ids, whose error is not read (no
\* data gives an empty map), and the assignment of the payer ids.
selectPayerIds(r) ==
    /\ run[r].pc = "selectPayers"
    /\ \E outcome \in StoreOutcomes :
        LET selected == IF outcome = "ok" THEN payers ELSE {}
        IN  /\ budget' = Spend(outcome)
            /\ run' = [run EXCEPT ![r] =
                        [Step(@, "selectPayers", outcome) EXCEPT
                            !.pc = "deletePayments",
                            !.payments = WithPayerIds(selected, @)]]
    /\ UNCHANGED <<call, api, overrides, tables, sync_log, reclassify, baseline>>

\* processPayments: the delete of every payments row; its result is not read.
deletePayments(r) ==
    /\ run[r].pc = "deletePayments"
    /\ \E outcome \in StoreOutcomes :
        /\ budget' = Spend(outcome)
        /\ payments' = IF outcome = "ok" THEN EmptyBag ELSE payments
        /\ run' = [run EXCEPT ![r] =
                    [Step(@, "deletePayments", outcome) EXCEPT
                        !.pc = IF run[r].payments = <<>> THEN "refresh" ELSE "insertPayments",
                        !.i = 1]]
    /\ UNCHANGED <<call, api, overrides, categories, members, interests, payers, payerSeq,
                   sync_log, reclassify, baseline>>

\* processPayments: one batch of the insert loop.
insertPaymentChunk(r) ==
    /\ run[r].pc = "insertPayments"
    /\ LET chunks == chunk(run[r].payments, CHUNK_SIZE)
           rows == chunks[run[r].i]
       IN  \E injected \in StoreOutcomes :
            LET outcome == IF PaymentRowsValid(rows) THEN injected ELSE "error"
            IN  /\ budget' = Spend(injected)
                /\ payments' = IF outcome = "ok" THEN payments (+) BagOfSeq(rows)
                               ELSE payments
                /\ run' = [run EXCEPT ![r] =
                            [PushError(Step(@, "payments", outcome), outcome,
                                       "Payment sync error")
                                EXCEPT !.i = @ + 1,
                                       !.pc = IF run[r].i = Len(chunks) THEN "refresh"
                                              ELSE "insertPayments"]]
    /\ UNCHANGED <<call, api, overrides, categories, members, interests, payers, payerSeq,
                   sync_log, reclassify, baseline>>

refreshMaterializedViews(r) ==
    /\ run[r].pc = "refresh"
    /\ \E outcome \in StoreOutcomes :
        /\ budget' = Spend(outcome)
        /\ run' = [run EXCEPT ![r] =
                    [PushError(Step(@, "refresh", outcome), outcome,
                               "Materialized view refresh error")
                        EXCEPT !.pc = "complete"]]
    /\ UNCHANGED <<call, api, overrides, tables, sync_log, reclassify, baseline>>

\* runSync, the end of the try block: completeSyncLog('completed') and the
\* return of the result.  The update of the log is not checked.
completeRun(r) ==
    /\ run[r].pc = "complete"
    /\ \E outcome \in StoreOutcomes :
        LET undisturbed == run[r].clean /\ outcome = "ok"
        IN  /\ budget' = Spend(outcome)
            /\ sync_log' = IF outcome = "ok"
                           THEN completeSyncLog(sync_log, run[r].syncId, "completed", Null)
                           ELSE sync_log
            /\ run' = [run EXCEPT ![r] =
                        [Step(@, "completeSyncLog", outcome) EXCEPT
                            !.pc = "done",
                            !.logLost = outcome # "ok",
                            !.result = Snapshot]]
            /\ baseline' = IF undisturbed THEN Snapshot ELSE None
    /\ UNCHANGED <<call, api, overrides, tables, reclassify>>

\* runSync, the catch block: completeSyncLog('failed', message), then the
\* error is thrown again.
failRun(r) ==
    /\ run[r].pc = "failing"
    /\ \E outcome \in StoreOutcomes :
        /\ budget' = Spend(outcome)
        /\ sync_log' = IF outcome = "ok"
                       THEN completeSyncLog(sync_log, run[r].syncId, "failed",
                                            run[r].error)
                       ELSE sync_log
        /\ run' = [run EXCEPT ![r] =
                    [@ EXCEPT !.pc = "thrown",
                              !.steps = Append(@, "completeSyncLog"),
                              !.logLost = outcome # "ok",
                              !.rethrown = run[r].error]]
    /\ UNCHANGED <<call, api, overrides, tables, reclassify, baseline>>

\* The platform ends the invocation when maxDuration has passed: the run
\* takes no further step.
deadline(r) ==
    /\ Active(r)
    /\ budget.faults > 0
    /\ budget' = [budget EXCEPT !.faults = @ - 1]
    /\ run' = [run EXCEPT ![r] = [@ EXCEPT !.pc = "killed", !.clean = FALSE]]
    /\ UNCHANGED <<call, api, overrides, tables, sync_log, reclassify, baseline>>

\* The register publishes other contents.
sourceChange ==
    /\ budget.events > 0
    /\ budget' = [budget EXCEPT !.events = @ - 1]
    /\ \E published \in Datasets \ {api} : api' = published
    /\ run' = [r \in Runs |-> [run[r] EXCEPT !.clean = FALSE]]
    /\ baseline' = None
    /\ UNCHANGED <<call, overrides, tables, sync_log, reclassify>>

\* An administrator corrects a payer by hand and sets is_manual_override.
markManualOverride ==
    /\ budget.events > 0
    /\ budget' = [budget EXCEPT !.events = @ - 1]
    /\ \E p \in payers :
        /\ ~p.is_manual_override
        /\ payers' = (payers \ {p}) \cup
                        {[p EXCEPT !.payer_type = "Charity",
                                   !.payer_subtype = "Think Tank",
                                   !.is_manual_override = TRUE]}
    /\ UNCHANGED <<call, api, overrides, categories, members, interests, payerSeq,
                   payments, sync_log, run, reclassify, baseline>>

\* The update of a payer whose new classification differs from the stored
\* one, as a list of one; the empty list for a payer left alone.
ReclassifyUpdate(payer, classification) ==
    IF /\ ~payer.is_manual_override
       /\ \/ classification.type # payer.payer_type
          \/ classification.subtype # payer.payer_subtype
    THEN <<[id |-> payer.id, payer_type |-> Classified(classification).type,
            payer_subtype |-> Classified(classification).subtype]>>
    ELSE <<>>

\* The updates the reclassify request collects from the payers it has read,
\* given in the order of their ids.
RECURSIVE ReclassifyUpdates(_, _)
ReclassifyUpdates(ovr, selected) ==
    IF selected = <<>> THEN <<>>
    ELSE ReclassifyUpdate(Head(selected), Classification[ovr][Head(selected).name])
            \o ReclassifyUpdates(ovr, Tail(selected))

\* The rows of a table in the order of their ids.
RowsById(rows) ==
    [k \in 1..Cardinality(rows) |->
        CHOOSE p \in rows : p.id = SortedSeq({q.id : q \in rows})[k]]

\* The reclassify request up to the end of its first loop: a classifier of
\* its own, the select of the payers, the updates to make.
reclassifyStart ==
    /\ reclassify.pc \in {"idle", "done", "failed"}
    /\ budget.events > 0
    /\ \E outcome \in StoreOutcomes :
        LET classifierOverrides == loadOverrides(<<>>, payerOverridesData)
            updates == ReclassifyUpdates(classifierOverrides, RowsById(payers))
        IN  /\ budget' = [Spend(outcome) EXCEPT !.events = @ - 1]
            /\ reclassify' =
                IF outcome = "error"
                THEN [pc |-> "failed", updates |-> <<>>, updatedCount |-> 0]
                ELSE IF payers = {}
                THEN [pc |-> "done", updates |-> <<>>, updatedCount |-> 0]
                ELSE [pc |-> "updating", updates |-> updates, updatedCount |-> 0]
    /\ UNCHANGED <<call, api, overrides, tables, sync_log, run, baseline>>

\* The reclassify request: one update of the second loop.
reclassifyUpdate ==
    /\ reclassify.pc = "updating"
    /\ reclassify.updates # <<>>
    /\ \E outcome \in StoreOutcomes :
        LET update == Head(reclassify.updates)
        IN  /\ budget' = Spend(outcome)
            /\ payers' = IF outcome = "ok"
                         THEN {IF p.id = update.id
                               THEN [p EXCEPT !.payer_type = update.payer_type,
                                              !.payer_subtype = update.payer_subtype]
                               ELSE p : p \in payers}
                         ELSE payers
            /\ reclassify' = [reclassify EXCEPT
                                !.updates = Tail(@),
                                !.updatedCount = IF outcome = "ok" THEN @ + 1 ELSE @]
    /\ UNCHANGED <<call, api, overrides, categories, members, interests, payerSeq,
                   payments, sync_log, run, baseline>>

\* The reclassify request: the refresh and the sample select, whose errors
\* are not read, and the response.
reclassifyFinish ==
    /\ reclassify.pc = "updating"
    /\ reclassify.updates = <<>>
    /\ reclassify' = [reclassify EXCEPT !.pc = "done"]
    /\ UNCHANGED <<call, api, overrides, tables, sync_log, run, budget, baseline>>

Next ==
    \/ \E r \in Runs : StartRun(r)
    \/ \E r \in Runs : syncCategories(r)
    \/ \E r \in Runs : syncMembers(r)
    \/ \E r \in Runs : fetchBulk(r)
    \/ \E r \in Runs : fetchEmployment(r)
    \/ \E r \in Runs : upsertInterestChunk(r)
    \/ \E r \in Runs : collectAndUpsertPayers(r)
    \/ \E r \in Runs : selectPayerIds(r)
    \/ \E r \in Runs : deletePayments(r)
    \/ \E r \in Runs : insertPaymentChunk(r)
    \/ \E r \in Runs : refreshMaterializedViews(r)
    \/ \E r \in Runs : completeRun(r)
    \/ \E r \in Runs : failRun(r)
    \/ \E r \in Runs : deadline(r)
    \/ sourceChange
    \/ markManualOverride
    \/ reclassifyStart
    \/ reclassifyUpdate
    \/ reclassifyFinish

Spec == Init /\ [][Next]_vars

(***************************************************************************)
(* The library functions called on their own                               *)
(*                                                                         *)
(* One call of the classifier, of loadOverrides, of the field extractor or *)
(* of the currency parser, on arguments drawn from the samples below; the  *)
(* store is left as it begins.                                             *)
(***************************************************************************)

Override(pattern, type, subtype) ==
    [pattern |-> pattern, type |-> type, subtype |-> subtype]

\* Lists given to loadOverrides: none; a substring pattern before a pattern
\* that is a whole name; a pattern of a rule word; the same key twice, in
\* two spellings; two keys, the first of them listed again after the second;
\* the list of the data file.
OverrideLists ==
    { <<>>,
      <<Override("Acme", "Individual", Undefined),
        Override("Acme Corp Ltd", "Government", "Agency")>>,
      <<Override("council", "Company", "Contractor")>>,
      <<Override("ACME", "Charity", "First"), Override("acme", "Company", "Second")>>,
      <<Override("corp", "Company", "First"), Override("acme", "Individual", Undefined),
        Override("CORP", "Government", "Third")>>,
      payerOverridesData }

\* Payer names given to classify: names no rule matches, names one rule
\* matches, names that rules of different priorities match, and names that
\* rules of the same priority match.
PayerNames ==
    { "Friends of Example Ltd", "Friends of Example", "Borough Trading Ltd",
      "Camden Council Ltd", "Camden Council", "Acme plc Ltd", "Acme Ltd plc",
      "Embassy of the Government of Ruritania", "Port Authority Council",
      "Acme Corp Ltd", "Acme Corp", " ACME CORP LTD ", "John Smith", "Zed Quux",
      "BBC News", "University College London", "Dr Jane Doe", "Mr Council",
      "Unison Trade Union", "Trust Holdings Group", "Limited Partners LLP", "" }

classifyCall ==
    /\ call = NoCall
    /\ \E list \in OverrideLists, name \in PayerNames :
        call' = [op |-> "classify", list |-> list, name |-> name,
                 result |-> classify(loadOverrides(<<>>, list), name)]
    /\ UNCHANGED <<api, overrides, tables, sync_log, run, reclassify, budget, baseline>>

loadOverridesCall ==
    /\ call = NoCall
    /\ \E before \in OverrideLists, list \in OverrideLists :
        call' = [op |-> "loadOverrides", previous |-> loadOverrides(<<>>, before),
                 list |-> list,
                 result |-> loadOverrides(loadOverrides(<<>>, before), list)]
    /\ UNCHANGED <<api, overrides, tables, sync_log, run, reclassify, budget, baseline>>

\* An interest of the samples: member 1, category 3.
SampleInterest(summary, fields, children) ==
    Interest(1, 1, 3, summary, fields, children)

\* Values of an amount field and of an hours field: missing, null, texts
\* that parse and that do not, numbers, booleans.
AmountValues ==
    { AbsentV, NullV, StrV("0"), StrV("£1,000"), StrV("£10,000-£15,000"),
      StrV("n/a"), IntV(0), IntV(500), BoolV(TRUE) }

HoursValues ==
    { AbsentV, StrV("0"), StrV("10"), StrV("2.5 hrs"), StrV("none"), IntV(4),
      BoolV(FALSE) }

\* Donor groups: with a numeric value (a number, a text), without one (a
\* text that does not parse, null, no value field), with a boolean value;
\* with and without name, address and payment type, with a boolean name.
DonorGroups ==
    { <<Field("Name", StrV("Alpha")), Field("Value", IntV(1000))>>,
      <<Field("Name", StrV("Beta")), Field("Value", IntV(2000)),
        Field("PublicAddress", StrV("1 High St")),
        Field("PaymentType", StrV("Monetary"))>>,
      <<Field("Name", StrV("")), Field("Value", StrV("£2,000")),
        Field("Address", StrV("2 Low Rd"))>>,
      <<Field("Name", StrV("Gamma")), Field("Value", StrV("n/a"))>>,
      <<Field("DonorName", StrV("Delta")), Field("Value", NullV)>>,
      <<Field("Value", BoolV(TRUE))>>,
      <<Field("Name", BoolV(TRUE)), Field("Value", IntV(250))>>,
      <<Field("Name", BoolV(FALSE)), Field("Value", IntV(750))>>,
      <<>> }

DonorContainers == {"Donors", "Funders"}

\* Pools without a field any attribute is read from: no field at all, with
\* and without child interests; a field no attribute names, of the interest
\* or of a child.
BarrenPools ==
    { [fields |-> <<>>, children |-> <<>>],
      [fields |-> <<>>, children |-> <<[fields |-> <<>>]>>],
      [fields |-> <<Field("Reference", StrV("X1"))>>, children |-> <<>>],
      [fields |-> <<>>, children |-> <<[fields |-> <<Field("Reference", IntV(7))>>]>>],
      [fields |-> <<Field("Reference", BoolV(TRUE))>>, children |-> <<>>] }

Extraction(kind, interest) ==
    [op |-> "extractPaymentFromInterest", kind |-> kind, interest |-> interest,
     result |-> extractPaymentFromInterest(interest)]

\* extractPaymentFromInterest on an interest with an amount and an hours
\* field.
extractEarningsCall ==
    /\ call = NoCall
    /\ \E amount \in AmountValues, hours \in HoursValues :
        call' = Extraction("earnings",
                    SampleInterest("Adviser", <<Field("Payment", amount),
                                                 Field("Hours worked", hours)>>, <<>>))
    /\ UNCHANGED <<api, overrides, tables, sync_log, run, reclassify, budget, baseline>>

\* extractPaymentFromInterest on an interest with two donor groups and no
\* amount field.
extractDonorsCall ==
    /\ call = NoCall
    /\ \E container \in DonorContainers, first \in DonorGroups, second \in DonorGroups :
        call' = Extraction("donors",
                    SampleInterest("", <<FieldWith(container, AbsentV,
                                            GroupValues(<<first, second>>))>>, <<>>))
    /\ UNCHANGED <<api, overrides, tables, sync_log, run, reclassify, budget, baseline>>

\* extractPaymentFromInterest on an interest without a field to read.
extractBarrenCall ==
    /\ call = NoCall
    /\ \E pool \in BarrenPools, summary \in {"", "Nothing to declare"} :
        call' = Extraction("barren", SampleInterest(summary, pool.fields, pool.children))
    /\ UNCHANGED <<api, overrides, tables, sync_log, run, reclassify, budget, baseline>>

\* Decimal literals, with the pound signs, commas and spaces the register
\* writes; texts that are no number; numbers.
BoundLiterals == {"0", "100", "10000", "15000", "1.5", "£2,500", " 7 ", "£10,000"}
Unparsable == {"", "abc", "n/a", "£", "-", "--", "tbc-tbc"}
Numbers == {IntV(0), IntV(250), NumV(5, 2), IntV(-3), NaNV}

Parsing(kind, low, high, value) ==
    [op |-> "parseCurrencyAmount", kind |-> kind, low |-> low, high |-> high,
     value |-> value, result |-> parseCurrencyAmount(value)]

parseRangeCall ==
    /\ call = NoCall
    /\ \E low \in BoundLiterals, high \in BoundLiterals :
        call' = Parsing("range", low, high, StrV(low \o "-" \o high))
    /\ UNCHANGED <<api, overrides, tables, sync_log, run, reclassify, budget, baseline>>

parseOtherCall ==
    /\ call = NoCall
    /\ \/ \E text \in Unparsable : call' = Parsing("text", "", "", StrV(text))
       \/ \E number \in Numbers : call' = Parsing("number", "", "", number)
    /\ UNCHANGED <<api, overrides, tables, sync_log, run, reclassify, budget, baseline>>

\* Fields with an empty values list and no value of their own, and pools
\* they are put before or behind: the field's attribute is carried by a later
\* field under another of its names, or by none.
EmptyValuesFields ==
    { FieldWith("Payment", AbsentV, FlatValues(<<>>)),
      FieldWith("Payer", AbsentV, FlatValues(<<>>)),
      FieldWith("Reference", AbsentV, FlatValues(<<>>)),
      FieldWith("Donors", AbsentV, GroupValues(<<>>)) }

OtherFields ==
    { <<Field("Amount", IntV(500)), Field("Donor", StrV("Acme Ltd"))>>,
      <<Field("Hours", IntV(4)), Field("Role", StrV("Adviser"))>>,
      <<FieldWith("Funders", AbsentV, GroupValues(<<
            <<Field("Name", StrV("Alpha")), Field("Value", IntV(1000))>> >>))>> }

\* extractPaymentFromInterest on an interest with such a field, and on the
\* same interest without it.
extractEmptyValuesCall ==
    /\ call = NoCall
    /\ \E empty \in EmptyValuesFields, others \in OtherFields, first \in BOOLEAN :
        LET with == SampleInterest("", IF first THEN <<empty>> \o others
                                       ELSE others \o <<empty>>, <<>>)
        IN  call' = [op |-> "extractPaymentFromInterest", kind |-> "emptyValues",
                     interest |-> with,
                     result |-> extractPaymentFromInterest(with),
                     without |-> extractPaymentFromInterest(
                                    SampleInterest("", others, <<>>))]
    /\ UNCHANGED <<api, overrides, tables, sync_log, run, reclassify, budget, baseline>>

\* Names of the fields of the pools findField is called on: names with
\* "type" or "description" that hold a synonym of another attribute or are
\* held by one, and names without them.
PoolNames ==
    { "PaymentType", "Type of payment", "Type", "Role description",
      "Description", "Payment", "Amount paid", "Job", "Donor name" }

\* findField on a pool of two fields, for the synonyms of one attribute.
findFieldCall ==
    /\ call = NoCall
    /\ \E first \in PoolNames, second \in PoolNames, attribute \in DOMAIN FIELD_MAPPINGS :
        call' = [op |-> "findField",
                 fields |-> <<Field(first, StrV("a")), Field(second, StrV("b"))>>,
                 attribute |-> attribute,
                 result |-> findField(<<Field(first, StrV("a")), Field(second, StrV("b"))>>,
                                      FIELD_MAPPINGS[attribute])]
    /\ UNCHANGED <<api, overrides, tables, sync_log, run, reclassify, budget, baseline>>

\* Names given to normalizeName: the payer names of the classifier's samples
\* and names with punctuation at their ends, inside them and between spaces.
NamesToNormalize ==
    PayerNames \cup { "Acme Corp.", "Acme Corp .", "(The) Acme Corp", "A & B",
                      "O'Neil  Ltd", "  Smith\t& Sons ", "...", "acme_corp" }

\* normalizeName on a name, and on its own result.
normalizeNameCall ==
    /\ call = NoCall
    /\ \E name \in NamesToNormalize :
        call' = [op |-> "normalizeName", name |-> name,
                 result |-> normalizeName(name),
                 again |-> normalizeName(normalizeName(name))]
    /\ UNCHANGED <<api, overrides, tables, sync_log, run, reclassify, budget, baseline>>

\* Listings given to the merge of syncInterests: the bulk listing of each
\* state of the register, and category listings that hold the employment
\* interests of a state of the register, an interest of another category,
\* an id twice, or an interest the bulk listing lacks.
BulkListings == {fetchAllInterests(published, ApiMembers) : published \in Datasets}

CategoryListings ==
    {fetchInterestsByCategory(published, EMPLOYMENT_CATEGORY, ApiMembers) :
        published \in Datasets}
    \cup { <<PublishedInterest(1, TRUE), PublishedInterest(2, TRUE)>>,
           <<PublishedInterest(1, FALSE), PublishedInterest(1, TRUE)>> }

mergeInterestsCall ==
    /\ call = NoCall
    /\ \E bulk \in BulkListings, employmentInterests \in CategoryListings :
        call' = [op |-> "mergeInterests", bulk |-> bulk,
                 employmentInterests |-> employmentInterests,
                 result |-> mergeInterests(bulk, employmentInterests)]
    /\ UNCHANGED <<api, overrides, tables, sync_log, run, reclassify, budget, baseline>>

CallInit == Init /\ api = {1, 4}

CallNext ==
    \/ findFieldCall
    \/ normalizeNameCall
    \/ parseRangeCall
    \/ parseOtherCall
    \/ mergeInterestsCall
    \/ loadOverridesCall
    \/ classifyCall
    \/ extractEarningsCall
    \/ extractDonorsCall
    \/ extractBarrenCall
    \/ extractEmptyValuesCall

CallSpec == CallInit /\ [][CallNext]_vars

(***************************************************************************)
(* Properties                                                              *)
(***************************************************************************)

LogOf(r) == sync_log[run[r].syncId]

\* C1: a complete run that follows a complete run, both undisturbed (no
\* store error, no other run at the same time, the register unchanged since
\* the first began), leaves the payments table with the rows and payer links
\* the first run left, and the payers table with as many rows.
SecondRunChangesNothing ==
    \A r \in Runs :
        (run[r].pc = "done" /\ run[r].clean /\ run[r].base # None)
            => /\ run[r].result.payments = run[r].base.payments
               /\ run[r].result.payers = run[r].base.payers

\* A second undisturbed run has completed over payments linked to two payers.
SecondRunCompleted ==
    \E r \in Runs :
        /\ run[r].pc = "done" /\ run[r].clean /\ run[r].base # None
        /\ run[r].base.payers >= 2
        /\ \E row \in BagToSet(run[r].base.payments) : row.payer_id # NULL_ID

\* C2: once a payers row has its manual-override flag set, no step of a sync
\* run or of a reclassify request changes its type, subtype or flag.
ManualOverridesAreKept ==
    [][\A p \in payers :
            p.is_manual_override =>
                \E q \in payers' :
                    /\ q.id = p.id
                    /\ q.payer_type = p.payer_type
                    /\ q.payer_subtype = p.payer_subtype
                    /\ q.is_manual_override]_vars

\* C3: every payments row with a payer id references a payers row whose
\* normalized name is normalizeName of the row's own payer name.
PayerLinksMatchNames ==
    \A row \in BagToSet(payments) :
        row.payer_id # NULL_ID =>
            \E p \in payers :
                /\ p.id = row.payer_id
                /\ row.payer_name.t = "str"
                /\ p.normalized_name = NormalizedName[row.payer_name.s]

\* A run has completed and payments are linked to different payers.
PaymentsLinkedToPayers ==
    /\ \E r \in Runs : run[r].pc = "done"
    /\ \E x, y \in BagToSet(payments) :
        x.payer_id # NULL_ID /\ y.payer_id # NULL_ID /\ x.payer_id # y.payer_id

\* The spelling of a name with case, punctuation and the amount of white
\* space taken away.
Canonical(name) ==
    trim(CollapseWhitespace(StripNonWordNonSpace(toLowerCase(name))))

CanonicalName == [n \in PublishedNames |-> Canonical(n)]

\* C4: no two payers rows have the same normalized name, and payments whose
\* payer names differ only in case, punctuation or amount of white space are
\* linked to one and the same payers row.
SpellingsShareOnePayer ==
    /\ \A p, q \in payers : p.normalized_name = q.normalized_name => p = q
    /\ \A x, y \in BagToSet(payments) :
        (/\ x.payer_id # NULL_ID /\ y.payer_id # NULL_ID
         /\ CanonicalName[x.payer_name.s] = CanonicalName[y.payer_name.s])
            => x.payer_id = y.payer_id

\* C5: when all runs have finished and none met a failure, the payments
\* table holds exactly the rows of one of the completed runs.
RunsRewritePaymentsInTurn ==
    (/\ \A r \in Runs : run[r].pc \in {"idle", "done"} /\ run[r].faults = <<>>
     /\ \E r \in Runs : run[r].pc = "done")
        => \E r \in Runs : run[r].pc = "done" /\ payments = BagOfSeq(run[r].payments)

\* C6: a run whose delete of the payments rows or whose insert of a payments
\* chunk failed has an entry in its error list and a recorded status other
\* than completed.
PartialRewriteIsReported ==
    \A r \in Runs :
        (/\ run[r].pc = "done"
         /\ \E k \in 1..Len(run[r].faults) :
                run[r].faults[k] \in {"deletePayments", "payments"})
            => /\ run[r].errors # <<>>
               /\ LogOf(r).status # "completed"

\* C7: when an undisturbed run has completed, every interests row and every
\* payments row belongs to an interest of that run's fetch, no payments row
\* is there twice, and every payments row has its interests row.
StoreReflectsLatestFetch ==
    \A r \in Runs :
        (run[r].pc = "done" /\ run[r].clean)
            => /\ run[r].result.interests \subseteq run[r].fetched
               /\ \A row \in BagToSet(run[r].result.payments) :
                    /\ row.interest_id \in run[r].fetched
                    /\ row.interest_id \in run[r].result.interests
                    /\ CopiesIn(row, run[r].result.payments) = 1

FetchSteps ==
    <<"fetchCategories", "fetchAllCurrentMPs", "fetchAllInterests",
      "fetchInterestsByCategory">>

\* The steps a run has taken when it comes to the k-th fetch.
StepsBeforeFetch(k) ==
    SubSeq(<<"createSyncLog", "categories", "members", "fetchAllInterests">>, 1, k)

\* C8: when a fetch from the register throws, the run takes no further step
\* but the update of its log entry, which (when the store applies it) sets
\* status failed, the error message and a completion time; the error is
\* thrown again to the caller.
FetchErrorFailsTheRun ==
    \A r \in Runs : \A k \in 1..Len(FetchSteps) :
        run[r].failedAt = FetchSteps[k] =>
            /\ run[r].error # Null
            /\ run[r].pc \in {"failing", "thrown", "killed"}
            /\ run[r].pc = "failing" =>
                    run[r].steps = StepsBeforeFetch(k) \o <<FetchSteps[k]>>
            /\ run[r].pc = "thrown" =>
                /\ run[r].steps =
                        StepsBeforeFetch(k) \o <<FetchSteps[k], "completeSyncLog">>
                /\ run[r].rethrown = run[r].error
                /\ ~run[r].logLost =>
                        LogOf(r) = [status |-> "failed", completed_at |-> TRUE,
                                    error_message |-> run[r].error]

\* The second interests fetch threw and the run ended as failed.
FetchThrewAndRunFailed ==
    \E r \in Runs :
        /\ run[r].pc = "thrown"
        /\ run[r].failedAt = "fetchInterestsByCategory"
        /\ LogOf(r).status = "failed"
        /\ LogOf(r).error_message = "Interests API error"

ErrorTag ==
    [s \in {"categories", "members", "interests", "payers", "payments", "refresh"} |->
        CASE s = "categories" -> "Category sync error"
          [] s = "members" -> "Member sync error"
          [] s = "interests" -> "Interest sync error"
          [] s = "payers" -> "Payer sync error"
          [] s = "payments" -> "Payment sync error"
          [] s = "refresh" -> "Materialized view refresh error"]

IsTaggedStep(s) == s \in DOMAIN ErrorTag

\* The tags of the failed batches of a run, in the order they failed.
TagsOfFaults(faults) ==
    [k \in 1..Len(SelectSeq(faults, IsTaggedStep)) |->
        ErrorTag[SelectSeq(faults, IsTaggedStep)[k]]]

ChunkCount(n) == (n + CHUNK_SIZE - 1) \div CHUNK_SIZE

Repeat(s, n) == [k \in 1..n |-> s]

\* Every step of a run that is not stopped, for the sizes of its batches.
AllSteps(rec) ==
    <<"createSyncLog", "categories", "members", "fetchAllInterests",
      "fetchInterestsByCategory">>
    \o Repeat("interests", ChunkCount(Cardinality(rec.fetched)))
    \o <<"payers", "selectPayers", "deletePayments">>
    \o Repeat("payments", ChunkCount(Len(rec.payments)))
    \o <<"refresh", "completeSyncLog">>

\* C9: the error list of a run holds, in order, one tagged entry for each
\* batch upsert, batch insert or view refresh the store reported an error
\* for; such an error never stops the run; the run that completes has taken
\* every step and its log entry (when the store applies the update) has
\* status completed.
BatchErrorsAreRecordedAndPassed ==
    \A r \in Runs :
        /\ run[r].errors = TagsOfFaults(run[r].faults)
        /\ run[r].pc \in {"failing", "thrown"} => ~IsTaggedStep(run[r].failedAt)
        /\ run[r].pc = "done" =>
            /\ run[r].steps = AllSteps(run[r])
            /\ ~run[r].logLost => LogOf(r).status = "completed"

\* A run has completed although the first of its interests batches failed,
\* and the later batch was written.
BatchFailedAndRunCompleted ==
    \E r \in Runs :
        /\ run[r].pc = "done"
        /\ run[r].errors = <<"Interest sync error">>
        /\ LogOf(r).status = "completed"
        /\ Len(SelectSeq(run[r].steps, LAMBDA s : s = "interests")) > 1
        /\ run[r].steps[6] = "interests" /\ run[r].faults = <<"interests">>
        /\ \E i \in interests : i.id \in run[r].fetched

\* C10: a run that created its log entry and has ended, by returning, by
\* throwing or by the deadline of the invocation, has the entry at completed
\* or failed; the run the deadline ended has it at failed.
EndedRunsAreClosedInTheLog ==
    \A r \in Runs :
        (Finished(r) /\ run[r].syncId # 0)
            => /\ LogOf(r).status \in {"completed", "failed"}
               /\ run[r].pc = "killed" => LogOf(r).status = "failed"

(***************************************************************************)
(* Properties of the classifier                                            *)
(***************************************************************************)

ClassifyCalled == call.op = "classify"

\* The override map of a classify call, and the name as the map is asked.
LoadedMap == loadOverrides(<<>>, call.list)
AskedName == trim(toLowerCase(call.name))

ExactEntries == {k \in 1..Len(LoadedMap) : LoadedMap[k].key = AskedName}
PartEntries == {k \in 1..Len(LoadedMap) : Includes(AskedName, LoadedMap[k].key)}

\* The rules of the table whose pattern matches the name of the call.
MatchingIndices ==
    {k \in 1..Len(DEFAULT_RULES) : RegexTest(DEFAULT_RULES[k].pattern, call.name)}

\* Rule k has the highest priority among the matching rules and stands
\* before every other matching rule of that priority.
WinsAmong(k, matching) ==
    \A j \in matching :
        \/ DEFAULT_RULES[j].priority < DEFAULT_RULES[k].priority
        \/ DEFAULT_RULES[j].priority = DEFAULT_RULES[k].priority /\ k <= j

\* C11: when no override matches the name, classify returns type and subtype
\* of the matching rule of highest priority, the first in the table among
\* those of that priority; "Camden Council Ltd" (council 6, Ltd 12) is a
\* Company.
HighestPriorityRuleWins ==
    (ClassifyCalled /\ PartEntries = {} /\ MatchingIndices # {})
        => /\ \E k \in MatchingIndices :
                /\ WinsAmong(k, MatchingIndices)
                /\ call.result = [type |-> DEFAULT_RULES[k].type,
                                  subtype |-> DEFAULT_RULES[k].subtype]
           /\ call.name = "Camden Council Ltd" => call.result.type = "Company"

\* A name was classified by a rule that is not the first of the table to
\* match it.
LaterRuleOfHigherPriorityWon ==
    /\ ClassifyCalled /\ call.list = <<>>
    /\ call.name = "Camden Council Ltd"
    /\ call.result.type = "Company"
    /\ \E j, k \in MatchingIndices :
        j < k /\ DEFAULT_RULES[j].priority < DEFAULT_RULES[k].priority

\* C12 as written: with no overrides, "Friends of Example Ltd" is a Company
\* of subtype "Advocacy Group".
FriendsOfBeatsLtd ==
    (ClassifyCalled /\ call.list = <<>> /\ call.name = "Friends of Example Ltd")
        => call.result = [type |-> "Company", subtype |-> "Advocacy Group"]

\* C12: with no overrides, "Friends of Example Ltd" is a Company without a
\* subtype: the Ltd rule (priority 12) wins over the "Friends of" rule
\* (priority 11), which gives its subtype only to a name the Ltd and PLC
\* rules do not match, such as "Friends of Example".
LtdBeatsFriendsOf ==
    (ClassifyCalled /\ call.list = <<>>)
        => /\ call.name = "Friends of Example Ltd" =>
                call.result = [type |-> "Company", subtype |-> Undefined]
           /\ call.name = "Friends of Example" =>
                call.result = [type |-> "Company", subtype |-> "Advocacy Group"]

FriendsOfLtdClassified ==
    /\ ClassifyCalled /\ call.list = <<>> /\ call.name = "Friends of Example Ltd"
    /\ \E j, k \in MatchingIndices :
        /\ DEFAULT_RULES[j].subtype = "Advocacy Group"
        /\ DEFAULT_RULES[k].priority > DEFAULT_RULES[j].priority

\* C13: when an entry of the override map is the name (lower-cased and
\* trimmed) or a part of it, classify returns the type and subtype of such
\* an entry, whatever rule matches; the entry that is the whole name is
\* taken before any that is only a part.
OverrideWins ==
    ClassifyCalled
        => /\ PartEntries # {} =>
                \E k \in PartEntries : call.result = LoadedMap[k].value
           /\ \A k \in ExactEntries : call.result = LoadedMap[k].value

\* The whole name was found although an earlier entry is a part of it and a
\* rule matches it.
ExactOverrideTaken ==
    /\ ClassifyCalled
    /\ \E k \in ExactEntries : \E j \in PartEntries :
        j < k /\ LoadedMap[j].value # LoadedMap[k].value
    /\ call.result = [type |-> "Government", subtype |-> "Agency"]
    /\ MatchingIndices # {}

LoadOverridesCalled == call.op = "loadOverrides"

\* The last entry of the list whose pattern, lower-cased, is the key.
LastWithKey(list, key) ==
    CHOOSE j \in 1..Len(list) :
        /\ toLowerCase(list[j].pattern) = key
        /\ \A h \in 1..Len(list) : toLowerCase(list[h].pattern) = key => h <= j

\* C14: after loadOverrides(L) the map holds one entry for each lower-cased
\* pattern of L, with the type and subtype L gives it (the last, when L names
\* it twice), and no entry of an earlier load.
LoadReplacesOverrides ==
    LoadOverridesCalled
        => /\ {call.result[k].key : k \in 1..Len(call.result)}
                = {toLowerCase(call.list[j].pattern) : j \in 1..Len(call.list)}
           /\ \A k, h \in 1..Len(call.result) :
                call.result[k].key = call.result[h].key => k = h
           /\ \A k \in 1..Len(call.result) :
                call.result[k].value =
                    [type |-> call.list[LastWithKey(call.list, call.result[k].key)].type,
                     subtype |-> call.list[LastWithKey(call.list, call.result[k].key)].subtype]

\* A load over a map that held a key the new list does not name.
EarlierOverrideDropped ==
    /\ LoadOverridesCalled
    /\ call.list # <<>>
    /\ \E k \in 1..Len(call.previous) :
        /\ \A j \in 1..Len(call.list) :
                toLowerCase(call.list[j].pattern) # call.previous[k].key
        /\ \A h \in 1..Len(call.result) : call.result[h].key # call.previous[k].key

(***************************************************************************)
(* Properties of the field extractor and of the currency parser            *)
(***************************************************************************)

ExtractCalled == call.op = "extractPaymentFromInterest"

\* C15: extractPaymentFromInterest throws for no interest, whatever the
\* values of its fields are.
ExtractorNeverThrows ==
    ExtractCalled => call.result # Thrown

\* C16: an interest whose pool has no field any attribute is read from, or
\* has no field at all, yields no payment.
BarrenPoolYieldsNoPayment ==
    (ExtractCalled /\ call.kind = "barren") => call.result = NoPayment

\* The fields of the two donor groups of a donors call, in order.
GroupFields ==
    call.interest.fields[1].values.items[1] \o call.interest.fields[1].values.items[2]

\* The fields among them that hold a numeric value.
IsNumericValue(field) ==
    /\ toLowerCase(field.name) = "value"
    /\ field.value.t \in {"num", "str"}
    /\ parseCurrencyAmount(field.value).t = "num"

RECURSIVE SumOfValues(_)
SumOfValues(fields) ==
    IF fields = <<>> THEN IntV(0)
    ELSE IF IsNumericValue(Head(fields))
         THEN NumAdd(parseCurrencyAmount(Head(fields).value), SumOfValues(Tail(fields)))
         ELSE SumOfValues(Tail(fields))

\* The first non-empty text under one of the names, NullV when there is none.
FirstText(fields, names) ==
    LET found == {k \in 1..Len(fields) :
                    /\ toLowerCase(fields[k].name) \in names
                    /\ fields[k].value.t = "str" /\ fields[k].value.s # ""}
    IN  IF found = {} THEN NullV
        ELSE fields[CHOOSE k \in found : \A j \in found : k <= j].value

HasBooleanValue == \E k \in 1..Len(GroupFields) : GroupFields[k].value.t = "bool"

HasNumericValue == \E k \in 1..Len(GroupFields) : IsNumericValue(GroupFields[k])

\* C17: for an interest with donor groups, no amount field and no boolean
\* among the donors' values, the amount is the sum of the numeric values of
\* all groups, and payer name, address and payment type are the first
\* non-empty ones of the groups; without a numeric value in any group the
\* donor groups give no amount, name, address or type.
DonorValuesAreSummed ==
    (ExtractCalled /\ call.kind = "donors" /\ ~HasBooleanValue)
        => IF HasNumericValue
           THEN /\ call.result.amount = SumOfValues(GroupFields)
                /\ call.result.payerName = FirstText(GroupFields, {"name", "donorname"})
                /\ call.result.payerAddress
                        = FirstText(GroupFields, {"publicaddress", "address"})
                /\ call.result.paymentType = FirstText(GroupFields, {"paymenttype"})
           ELSE /\ call.result.amount = NullV
                /\ call.result.payerName = NullV
                /\ call.result.payerAddress = NullV
                /\ call.result.paymentType = NullV

\* Two groups with the values 1000 and 2000 gave the amount 3000, and the
\* name of the first group.
TwoDonorsSummed ==
    /\ ExtractCalled /\ call.kind = "donors"
    /\ \E j, k \in 1..Len(GroupFields) :
        /\ GroupFields[j].value = IntV(1000)
        /\ GroupFields[k].value = IntV(2000)
    /\ call.result.amount = IntV(3000)
    /\ call.result.payerName = StrV("Alpha")
    /\ call.result.payerAddress = StrV("1 High St")

\* C18: the hourly rate is the amount divided by the hours when the amount
\* is not null, the hours are not null and greater than 0; it is null
\* otherwise.
HourlyRateIsAmountByHours ==
    (ExtractCalled /\ call.result.t = "payment")
        => IF /\ call.result.amount.t = "num"
              /\ call.result.hoursWorked.t = "num"
              /\ call.result.hoursWorked.n > 0
           THEN call.result.hourlyRate
                    = NumV(call.result.amount.n * call.result.hoursWorked.d,
                           call.result.amount.d * call.result.hoursWorked.n)
           ELSE call.result.hourlyRate = NullV

ParseCalled == call.op = "parseCurrencyAmount"

\* The number a decimal literal (digits, and a fraction after a dot) writes.
LiteralValue(literal) ==
    LET dot == IndexOfChar(".", literal)
        whole == IF dot = 0 THEN literal ELSE SubSeq(literal, 1, dot - 1)
        fraction == IF dot = 0 THEN "" ELSE SubSeq(literal, dot + 1, Len(literal))
    IN  NumV(DigitsValue(whole \o fraction), Pow10(Len(fraction)))

\* A text without its pound signs, commas and white space.
RECURSIVE Bare(_)
Bare(text) ==
    IF text = "" THEN ""
    ELSE (IF Head(text) \in {"£", ",", " "} THEN "" ELSE Head(text)) \o Bare(Tail(text))

\* C19: parseCurrencyAmount gives, for two numbers with a dash between them
\* (pound signs, commas and white space aside), half their sum; for a
\* number, the number; for a text that is no number, null.
RangeGivesMidpoint ==
    ParseCalled
        => /\ call.kind = "range" =>
                call.result = NumDiv(NumAdd(LiteralValue(Bare(call.low)),
                                            LiteralValue(Bare(call.high))), IntV(2))
           /\ call.kind = "number" => call.result = call.value
           /\ call.kind = "text" => call.result = NullV

\* "£10,000-15000" gave 12500.
MidpointOfTenAndFifteenThousand ==
    /\ ParseCalled /\ call.kind = "range"
    /\ call.value = StrV("£10,000-15000")
    /\ call.result = IntV(12500)

(***************************************************************************)
(* Properties of the order of the steps of a run                           *)
(***************************************************************************)

\* The place of a recorded call in the order of the steps of runSync: the
\* log entry is created (0), categories (1), members (2), interests (3),
\* payments (4), views (5), the log entry is closed (6).
StepOf(name) ==
    CASE name = "createSyncLog" -> 0
      [] name \in {"fetchCategories", "categories"} -> 1
      [] name \in {"fetchAllCurrentMPs", "members"} -> 2
      [] name \in {"fetchAllInterests", "fetchInterestsByCategory", "interests"} -> 3
      [] name \in {"extract", "payers", "selectPayers", "deletePayments", "payments"} -> 4
      [] name = "refresh" -> 5
      [] name = "completeSyncLog" -> 6

\* The calls a run makes once for each batch.
BatchCalls == {"interests", "payments"}

\* The steps a run has taken follow the order, none is left out before the
\* run fails and none is taken again.
StepsInOrder(r) ==
    LET taken == run[r].steps
    IN  /\ taken # <<>> => taken[1] = "createSyncLog"
        /\ \A k \in 1..(Len(taken) - 1) :
            /\ StepOf(taken[k]) <= StepOf(taken[k + 1])
            /\ \/ StepOf(taken[k + 1]) <= StepOf(taken[k]) + 1
               \/ taken[k + 1] = "completeSyncLog" /\ run[r].failedAt # Null
        /\ \A j, k \in 1..Len(taken) :
            (taken[j] = taken[k] /\ taken[j] \notin BatchCalls) => j = k

\* The log entry of a run is completed only when the run has taken every
\* step, and failed only when one of its steps threw.
StatusFollowsSteps(r) ==
    run[r].syncId # 0 =>
        /\ LogOf(r).status = "completed" =>
            /\ run[r].pc = "done" /\ run[r].failedAt = Null
            /\ {StepOf(run[r].steps[k]) : k \in 1..Len(run[r].steps)} = 0..6
        /\ LogOf(r).status = "failed" =>
            /\ run[r].pc = "thrown" /\ run[r].failedAt # Null
            /\ run[r].steps[Len(run[r].steps)] = "completeSyncLog"

\* A log entry that is completed or failed is left as it is.
ClosedLogKept ==
    \A k \in DOMAIN sync_log :
        sync_log[k].status \in {"completed", "failed"} =>
            k \in DOMAIN sync_log' /\ sync_log'[k] = sync_log[k]

PayersCarryTheClassification ==
    \A p \in payers :
        ~p.is_manual_override =>
            [type |-> p.payer_type, subtype |-> p.payer_subtype]
                = Classified(Classification[overrides][p.name])

\* The entries of the list of a classify call whose pattern, lower-cased, is
\* a part of the name, and the earliest of them.
ListedParts ==
    {j \in 1..Len(call.list) : Includes(AskedName, toLowerCase(call.list[j].pattern))}

EarliestListedPart == CHOOSE j \in ListedParts : \A h \in ListedParts : j <= h

\* Several listed patterns are parts of the name and none is the name.
SeveralPartsNoneExact ==
    /\ ClassifyCalled
    /\ Cardinality(ListedParts) > 1
    /\ \A j \in ListedParts : toLowerCase(call.list[j].pattern) # AskedName

\* C22 as stated: when several listed patterns are parts of the name and
\* none is the name, classify returns type and subtype of the earliest of
\* them in the list.
EarliestListedOverrideWins ==
    SeveralPartsNoneExact
        => call.result = [type |-> call.list[EarliestListedPart].type,
                          subtype |-> call.list[EarliestListedPart].subtype]

\* C22: when several listed patterns are parts of the name and none is the
\* name, classify takes the pattern listed earliest, and returns the type
\* and subtype of the entry listed last among those whose pattern is, in
\* lower case, the same: the earliest entry itself when the list names no
\* key twice.
EarliestKeyLatestValueWins ==
    SeveralPartsNoneExact
        => LET key == toLowerCase(call.list[EarliestListedPart].pattern)
               last == LastWithKey(call.list, key)
           IN  call.result = [type |-> call.list[last].type,
                              subtype |-> call.list[last].subtype]

\* Two different keys are parts of the name; the first of them was listed
\* again later, and its later value was returned.
EarliestKeyReturnedLaterValue ==
    /\ SeveralPartsNoneExact
    /\ \E j, k \in ListedParts :
        toLowerCase(call.list[j].pattern) # toLowerCase(call.list[k].pattern)
    /\ LastWithKey(call.list, toLowerCase(call.list[EarliestListedPart].pattern))
            > EarliestListedPart
    /\ call.result = [type |-> "Government", subtype |-> "Third"]

MergeCalled == call.op = "mergeInterests"

\* The places of the category listing that hold the id of place k of the
\* bulk listing.
SameIdInCategoryListing(k) ==
    {j \in 1..Len(call.employmentInterests) :
        call.employmentInterests[j].id = call.bulk[k].id}

\* C23: the merged list has the length and the ids, in order, of the bulk
\* list; an interest of category 12 whose id the category listing holds is
\* replaced by the record of that listing, every other interest is the one
\* of the bulk list.
MergeReplacesEmploymentInterests ==
    MergeCalled
        => /\ Len(call.result) = Len(call.bulk)
           /\ \A k \in 1..Len(call.bulk) :
                /\ call.result[k].id = call.bulk[k].id
                /\ IF /\ call.bulk[k].category.id = 12
                      /\ SameIdInCategoryListing(k) # {}
                   THEN \E j \in SameIdInCategoryListing(k) :
                            call.result[k] = call.employmentInterests[j]
                   ELSE call.result[k] = call.bulk[k]

\* An employment interest got its child interests from the category listing,
\* an interest of another category that the category listing also holds was
\* kept, and an interest the category listing lacks was kept.
EmploymentInterestReplaced ==
    /\ MergeCalled
    /\ \E k \in 1..Len(call.bulk) :
        /\ call.bulk[k].category.id = 12
        /\ call.bulk[k].childInterests = <<>>
        /\ call.result[k].childInterests # <<>>
    /\ \E k \in 1..Len(call.bulk) :
        /\ call.bulk[k].category.id # 12
        /\ SameIdInCategoryListing(k) # {}
        /\ call.result[k] = call.bulk[k]
    /\ \E k \in 1..Len(call.bulk) : SameIdInCategoryListing(k) = {}

(***************************************************************************)
(* Properties of the search of the fields                                  *)
(***************************************************************************)

\* C24: a field with an empty values list (and no value of its own) changes
\* nothing: the extraction of an interest with it is the extraction of the
\* interest without it.
EmptyValuesFieldIsAbsent ==
    (ExtractCalled /\ call.kind = "emptyValues") => call.result = call.without

\* C25: no extracted payment has the payer name "true" or "false": a
\* boolean in the place of a payer name gives no name.
NoPayerNameFromBoolean ==
    (ExtractCalled /\ call.result.t = "payment")
        => call.result.payerName \notin {StrV("true"), StrV("false")}

FindCalled == call.op = "findField"

\* Some synonym of the attribute of the call holds the word.
SynonymHolds(word) ==
    \E k \in 1..Len(FIELD_MAPPINGS[call.attribute]) :
        Includes(toLowerCase(FIELD_MAPPINGS[call.attribute][k]), word)

\* C26: findField returns a field whose name holds "type" only for an
\* attribute one of whose synonyms holds "type", and a field whose name
\* holds "description" only for an attribute one of whose synonyms holds
\* "description"; the field "PaymentType" is never found for the amount.
GuardedFieldsNeedTheirWord ==
    (FindCalled /\ call.result # NoField)
        => /\ Includes(toLowerCase(call.result.name), "type") => SynonymHolds("type")
           /\ Includes(toLowerCase(call.result.name), "description")
                => SynonymHolds("description")
           /\ call.attribute = "amount" => call.result.name # "PaymentType"

\* The amount was searched in a pool whose first field is "PaymentType",
\* which holds the synonym "Payment", and the second field was found.
PaymentTypePassedOver ==
    /\ FindCalled /\ call.attribute = "amount"
    /\ call.fields[1].name = "PaymentType"
    /\ Includes(toLowerCase(call.fields[1].name), toLowerCase(FIELD_MAPPINGS.amount[1]))
    /\ call.result = call.fields[2]
    /\ call.result.name = "Amount paid"

(***************************************************************************)
(* Properties of the reclassify request and of the tables around a run     *)
(***************************************************************************)

\* The reclassify request makes the first of its updates and counts it.
ReclassifyWrites ==
    /\ reclassify.pc = "updating" /\ reclassify.updates # <<>>
    /\ reclassify'.updatedCount = reclassify.updatedCount + 1

\* C27: an update the reclassify request writes and counts is one of a row
\* that is not a manual override and whose stored type or subtype differs
\* from the type and subtype written.
ReclassifyWritesOnlyChangedRows ==
    [][ReclassifyWrites =>
        \A p \in payers :
            p.id = Head(reclassify.updates).id =>
                /\ ~p.is_manual_override
                /\ \/ Head(reclassify.updates).payer_type # p.payer_type
                   \/ Head(reclassify.updates).payer_subtype # p.payer_subtype]_vars

\* The steps of a run that write the payers or the payments table.
WriteSteps == {"payers", "deletePayments", "payments"}

\* The run takes one of its writing steps, after the steps in which its four
\* fetches returned.
WritesAfterItsFetches(r) ==
    /\ Len(run'[r].steps) = Len(run[r].steps) + 1
    /\ run'[r].steps[Len(run'[r].steps)] \in WriteSteps
    /\ {"categories", "members", "fetchAllInterests", "fetchInterestsByCategory"}
            \subseteq Range(run[r].steps)
    /\ run[r].failedAt = Null

\* C28: a run that failed because a fetch threw has taken no step that
\* writes the payers or the payments table, and the two tables change only
\* in a writing step of a run whose fetches have all returned, in a
\* reclassify request or by the hand of an administrator.
FailedFetchLeavesTablesAlone ==
    /\ [](\A r \in Runs :
            (\E k \in 1..Len(FetchSteps) : run[r].failedAt = FetchSteps[k])
                => \A j \in 1..Len(run[r].steps) : run[r].steps[j] \notin WriteSteps)
    /\ [][(payers' # payers \/ payments' # payments)
            => \/ \E r \in Runs : WritesAfterItsFetches(r)
               \/ reclassify' # reclassify
               \/ budget'.events < budget.events]_vars

\* A run has failed in its last fetch over tables an earlier run filled, and
\* the tables are as that run left them.
FetchFailedOverFilledTables ==
    \E r, q \in Runs :
        /\ run[r].pc = "thrown" /\ run[r].failedAt = "fetchInterestsByCategory"
        /\ run[q].pc = "done" /\ run[q].result # None
        /\ run[q].syncId < run[r].syncId
        /\ payments = run[q].result.payments /\ payments # EmptyBag
        /\ Cardinality(payers) = run[q].result.payers /\ payers # {}

\* The run has assigned the payer ids, and neither the upsert of the payers
\* nor the select of their ids reported an error.
PayersWrittenAndRead(r) ==
    /\ \E k \in 1..Len(run[r].steps) : run[r].steps[k] = "selectPayers"
    /\ \A k \in 1..Len(run[r].faults) : run[r].faults[k] \notin {"payers", "selectPayers"}

\* C29: in a run whose payer upsert and payer id select both succeeded, a
\* payments row has a payer id exactly when its payer name is not null and
\* not empty.
NamedPaymentsGetPayerIds ==
    \A r \in Runs :
        PayersWrittenAndRead(r) =>
            \A k \in 1..Len(run[r].payments) :
                Truthy(run[r].payments[k].payer_name)
                    <=> run[r].payments[k].payer_id # NULL_ID

\* A run has completed after both calls succeeded, with a payment that has
\* a payer name and an id and a payment that has neither, and its rows are
\* in the table.
NamedAndUnnamedPaymentsWritten ==
    \E r \in Runs :
        /\ run[r].pc = "done" /\ PayersWrittenAndRead(r)
        /\ \E j, k \in 1..Len(run[r].payments) :
            /\ run[r].payments[j].payer_name.t = "str"
            /\ run[r].payments[j].payer_id # NULL_ID
            /\ run[r].payments[k].payer_name = NullV
            /\ run[r].payments[k].payer_id = NULL_ID
        /\ payments = BagOfSeq(run[r].payments)

(***************************************************************************)
(* Properties of the name normalizer                                       *)
(***************************************************************************)

\* C30: normalizeName of a normalized name is that name, and a normalized
\* name neither begins nor ends with white space.
NormalizeNameIsIdempotent ==
    call.op = "normalizeName"
        => /\ call.again = call.result
           /\ call.result # "" =>
                /\ ~IsSpace(Char(call.result, 1))
                /\ ~IsSpace(Char(call.result, Len(call.result)))

====
